---- MODULE Spec2Model ----
(***************************************************************************)
(* State-machine model of stserver.js: the in-memory chat-room and         *)
(* music-room engine driven by socket.io events (second server of the      *)
(* file, lines 624-1189), and the token-authenticated join of the first    *)
(* server (lines 284-360).                                                 *)
(*                                                                         *)
(* Every socket.io handler runs to completion on Node's single thread, so  *)
(* each handler of the second server is one atomic action.  The handler    *)
(* of the first server awaits two database queries and is split at its     *)
(* awaits.  The events a handler emits are kept in emitted; one            *)
(* specification follows them over each socket's connection to the client. *)
(***************************************************************************)
EXTENDS Integers, Sequences, FiniteSets, TLC

\* ------------------------------------------------------------------ bounds

\* Socket ids of the connections that may ever be opened.
Conns == {"s1", "s2", "s3"}

\* Display names a client may announce; "" is the name before any announce.
UserNames == {"ann", "bob"}

\* Chat room names a client may send.
RoomNames == {"A", "B"}

\* Passwords a client may send; "" stands for none (falsy in the code).
Passwords == {"", "pw", "bad"}

\* maxUsers values a client may send; 0 stands for none (falsy in the code).
MaxUsersInputs == {0, 1, 2}

\* Display names of music rooms a client may send.
MusicNames == {"Jam", "Pop"}

\* Largest value of the wall clock Date.now() explored.
MaxClock == 1

\* Largest number of chat messages sent in a run that starts with no room.
MaxMsgs == 2

\* Largest number of chat messages sent past the cap of a long history.
MaxExtra == 2

\* ------------------------------------------------------- program constants

\* room.messages is trimmed to its last 100 entries.
HistoryCap == 100

\* maxUsers: maxUsers || null -- no limit; null and 0 are both falsy.
NoLimit == 0

\* maxUsers: maxUsers || 10 -- the default capacity of a music room.
DefaultMusicMax == 10

\* password: password || null -- no password; null and "" are both falsy.
NoPassword == ""

\* currentTrack: null / playStartTime: null of a new music room.
NoTrack == 0
NoTime == -1

\* let currentRoom = '' / let currentMusicRoom = '' / let currentUser = ''.
None == ""

\* ------------------------------------------------------------------- state

VARIABLES
    status,            \* socket id -> "fresh" | "live" | "closed"
    currentUser,       \* socket id -> the handler closure's currentUser
    currentRoom,       \* socket id -> the handler closure's currentRoom
    currentMusicRoom,  \* socket id -> the handler closure's currentMusicRoom
    rooms,             \* the Map rooms: room name -> room record
    musicRooms,        \* the Map musicRooms: room id -> room record
    sockRooms,         \* socket id -> the adapter rooms the socket has joined
    now,               \* Date.now()
    nextMsgId,         \* the next fresh message id
    sent,              \* room name -> every message accepted, in send order
    deletes,           \* room name -> the ids of the messages deleted
    last,              \* the request the latest handler served
    emitted,           \* the events the latest handler emitted, in order
    tStatus,           \* first server: socket id -> "fresh" | "live"
    tUser,             \* first server: socket id -> socket.user is set
    tCurrentRoom,      \* first server: socket id -> socket.currentRoom
    tRooms,            \* first server: socket id -> adapter rooms joined
    tJoin,             \* first server: socket id -> its 'join room' handler
                       \* in flight: where it waits and the room it names
    tOut,              \* first server: socket id -> how its latest
                       \* 'join room' ended and what it saw
    accepted,          \* the number of handler runs whose events went out
    wire,              \* socket id -> the events on their way to the client
    seen               \* socket id -> the events the client has received

\* The state of the second server (the room engine) and of the first (the
\* token-authenticated join); last and emitted observe whichever runs.
chatVars == <<status, currentUser, currentRoom, currentMusicRoom, rooms,
              musicRooms, sockRooms, now, nextMsgId, sent, deletes>>
tokenVars == <<tStatus, tUser, tCurrentRoom, tRooms, tJoin, tOut>>
wireVars == <<accepted, wire, seen>>
vars == <<status, currentUser, currentRoom, currentMusicRoom, rooms, musicRooms,
          sockRooms, now, nextMsgId, sent, deletes, last, emitted,
          tStatus, tUser, tCurrentRoom, tRooms, tJoin, tOut,
          accepted, wire, seen>>

\* ----------------------------------------------------------------- helpers

Live(c) == status[c] = "live"

\* The last n entries of s (Array.prototype.slice(-n)).
SliceLast(s, n) ==
    IF Len(s) <= n THEN s ELSE SubSeq(s, Len(s) - n + 1, Len(s))

\* Splice taking the last entry whatever the index.
Splice_Last(s, i) == SubSeq(s, 1, Len(s) - 1)

\* s without its i-th entry (Array.prototype.splice(i, 1)).
Splice(s, i) ==
    [k \in 1 .. Len(s) - 1 |-> IF k < i THEN s[k] ELSE s[k + 1]]

\* Array.prototype.findIndex(msg => msg.id === id), 1-based; 0 when absent.
FindIndex(s, id) ==
    IF \E k \in 1 .. Len(s) : s[k].id = id
    THEN CHOOSE k \in 1 .. Len(s) :
             s[k].id = id /\ \A j \in 1 .. k - 1 : s[j].id # id
    ELSE 0

\* The request record kept in last: the event name, the socket, the room,
\* password and message id sent, whether the socket was an occupant of the
\* room and the room's free slots when the handler started, and whether the
\* handler ran right after another socket's join took that room's last slot.
Req(op, c, room, pw, mid, was, free) ==
    [op |-> op, id |-> c, room |-> room, pw |-> pw, mid |-> mid,
     was |-> was, free |-> free, contended |-> FALSE]

\* One emitted event.
Ev(ev, to, room, user, count, mid, err) ==
    [ev |-> ev, to |-> to, room |-> room, user |-> user, count |-> count,
     mid |-> mid, err |-> err]

\* The error texts of 'room join error', 'delete error' and
\* 'music room join error', by what they say.
ErrExists == "room name already exists"
ErrNotFound == "room does not exist"
ErrPassword == "wrong password"
ErrFull == "room is full"
ErrNoPermission == "no permission"
ErrNoMessage == "message not found"
ErrNotAuthor == "only own messages can be deleted"

ErrMusicExists == "music room name already exists"
ErrMusicNotFound == "music room does not exist"
ErrMusicFull == "music room is full"

\* ToSelf reaching every socket.
ToSelf_Everyone(c) == Conns

\* socket.emit(ev, ...): to the requesting socket alone.
ToSelf(c) == {c}

\* ToRoom reaching nobody.
ToRoom_Nobody(sr, room) == {}

\* io.to(room).emit(ev, ...): to every socket joined to the adapter room.
ToRoom(sr, room) == {d \in Conns : room \in sr[d]}

\* socket.to(room).emit(ev, ...): the adapter room without the sender.
ToOthers(sr, c, room) == ToRoom(sr, room) \ {c}

\* ToAllOthers reaching nobody.
ToAllOthers_Nobody(st, c) == {}

\* socket.broadcast.emit(ev, ...): every connected socket but the sender.
ToAllOthers(st, c) == {d \in Conns : st[d] = "live"} \ {c}

\* No 'join room' handler of the first server is in flight.
IdleJoin == [pc |-> "idle", room |-> None]

\* No 'join room' of the first server has ended yet.
NoOutcome == [result |-> "none", room |-> None, cap |-> 0, was |-> FALSE,
              start |-> 0]

\* No event has been emitted yet: nothing is on its way, nothing received.
WireIdle ==
    /\ accepted = 0
    /\ wire = [c \in Conns |-> <<>>]
    /\ seen = [c \in Conns |-> <<>>]

\* ------------------------------------------------------------------- Init

Init ==
    /\ status = [c \in Conns |-> "fresh"]
    /\ currentUser = [c \in Conns |-> None]
    /\ currentRoom = [c \in Conns |-> None]
    /\ currentMusicRoom = [c \in Conns |-> None]
    /\ rooms = <<>>
    /\ musicRooms = <<>>
    /\ sockRooms = [c \in Conns |-> {}]
    /\ now = 0
    /\ nextMsgId = 1
    /\ sent = [r \in RoomNames |-> <<>>]
    /\ deletes = [r \in RoomNames |-> {}]
    /\ last = Req("init", None, None, NoPassword, 0, FALSE, 0)
    /\ emitted = <<>>
    /\ tStatus = [c \in Conns |-> "fresh"]
    /\ tUser = [c \in Conns |-> FALSE]
    /\ tCurrentRoom = [c \in Conns |-> None]
    /\ tRooms = [c \in Conns |-> {}]
    /\ tJoin = [c \in Conns |-> IdleJoin]
    /\ tOut = [c \in Conns |-> NoOutcome]
    /\ WireIdle

\* --------------------------------------------------------------- lifecycle

\* io.on('connection'): a new socket with its three closure variables.
Connect(c) ==
    /\ status[c] = "fresh"
    /\ status' = [status EXCEPT ![c] = "live"]
    /\ last' = Req("connection", c, None, NoPassword, 0, FALSE, 0)
    /\ emitted' = <<>>
    /\ UNCHANGED <<currentUser, currentRoom, currentMusicRoom, rooms,
                   musicRooms, sockRooms, now, nextMsgId, sent, deletes>>
    /\ UNCHANGED tokenVars

\* socket.on('user join'): currentUser = data.username.
UserJoin(c, username) ==
    /\ Live(c)
    /\ currentUser' = [currentUser EXCEPT ![c] = username]
    /\ last' = Req("user join", c, None, NoPassword, 0, FALSE, 0)
    /\ emitted' = <<Ev("test message", ToSelf(c), None, None, 0, 0, None)>>
    /\ UNCHANGED <<status, currentRoom, currentMusicRoom, rooms, musicRooms,
                   sockRooms, now, nextMsgId, sent, deletes>>
    /\ UNCHANGED tokenVars

\* ------------------------------------------------------------- chat rooms

\* The room object of rooms.set(roomName, {...}).
NewRoom(maxUsers, password, creator) ==
    [users |-> {}, messages |-> <<>>, maxUsers |-> maxUsers,
     password |-> password, creator |-> creator]

\* HasRoom never finding the name: every create stores a new room.
HasRoom_Never(map, roomName) == FALSE

\* rooms.has(roomName).
HasRoom(map, roomName) == roomName \in DOMAIN map

\* socket.on('create room').
CreateRoom(c, roomName, maxUsers, password) ==
    /\ Live(c)
    /\ last' = Req("create room", c, roomName, password, 0, FALSE, 0)
    /\ IF ~HasRoom(rooms, roomName)
       THEN /\ rooms' = (roomName :> NewRoom(maxUsers, password, currentUser[c]))
                        @@ rooms
            /\ emitted' = <<Ev("room created", ToSelf(c), roomName, None,
                               maxUsers, 0, None)>>
       ELSE /\ rooms' = rooms
            /\ emitted' = <<Ev("room join error", ToSelf(c), None, None, 0, 0,
                               ErrExists)>>
    /\ UNCHANGED <<status, currentUser, currentRoom, currentMusicRoom,
                   musicRooms, sockRooms, now, nextMsgId, sent, deletes>>
    /\ UNCHANGED tokenVars

\* PasswordRejects letting a join with no password through:
\* if (password && password !== room.password) -> rejected.
PasswordRejects_EmptyPasses(room, user, password) ==
    /\ room.password # NoPassword
    /\ room.creator # user
    /\ password # NoPassword
    /\ password # room.password

\* if (room.password && room.creator !== currentUser)
\*     if (!password || password !== room.password) -> rejected.
PasswordRejects(room, user, password) ==
    /\ room.password # NoPassword
    /\ room.creator # user
    /\ (password = NoPassword \/ password # room.password)

\* RoomIsFull with > for >=: one occupant too many is let in.
RoomIsFull_OffByOne(room) ==
    /\ room.maxUsers # NoLimit
    /\ Cardinality(room.users) > room.maxUsers

\* if (room.maxUsers && room.users.size >= room.maxUsers) -> rejected.
RoomIsFull(room) ==
    /\ room.maxUsers # NoLimit
    /\ Cardinality(room.users) >= room.maxUsers

\* Free slots of a room with a limit.
FreeSlots(room) == room.maxUsers - Cardinality(room.users)

\* if (currentRoom) { prevRoom = rooms.get(currentRoom); if (prevRoom) ...
HasPrevRoom(c) == currentRoom[c] # None /\ currentRoom[c] \in DOMAIN rooms

\* Replay walking the history from its end.
Replay_Reversed(c, roomName, messages) ==
    [k \in 1 .. Len(messages) |->
        Ev("chat message replay", ToSelf(c), roomName,
           messages[Len(messages) + 1 - k].username, 0,
           messages[Len(messages) + 1 - k].id, None)]

\* room.messages.forEach(message => socket.emit('chat message',
\*     {...message, isPrevious: true})).
Replay(c, roomName, messages) ==
    [k \in 1 .. Len(messages) |->
        Ev("chat message replay", ToSelf(c), roomName, messages[k].username,
           0, messages[k].id, None)]

\* socket.emit('room join error', {...}); return; with the previous room
\* left before the checks instead of after them.
JoinRejected_LeavesPrev(c, err, count) ==
    /\ emitted' = <<Ev("room join error", ToSelf(c), None, None, count, 0,
                       err)>>
    /\ rooms' = IF HasPrevRoom(c)
                THEN [rooms EXCEPT ![currentRoom[c]].users = @ \ {c}]
                ELSE rooms
    /\ UNCHANGED <<currentRoom, sockRooms>>

\* socket.emit('room join error', {...}); return;
JoinRejected(c, err, count) ==
    /\ emitted' = <<Ev("room join error", ToSelf(c), None, None, count, 0,
                       err)>>
    /\ UNCHANGED <<rooms, currentRoom, sockRooms>>

\* The latest handler was another socket's join that took the last free
\* slot of roomName.
TookLastSlot(c, roomName) ==
    /\ last.op = "join room"
    /\ last.room = roomName
    /\ last.id # c
    /\ ~last.was
    /\ last.free = 1
    /\ last.id \in rooms[roomName].users

\* socket.on('join room') of the second server.
JoinRoom(c, roomName, password) ==
    /\ Live(c)
    /\ last' = [Req("join room", c, roomName, password, 0,
                    roomName \in DOMAIN rooms /\ c \in rooms[roomName].users,
                    IF roomName \in DOMAIN rooms
                    THEN FreeSlots(rooms[roomName]) ELSE 0)
                EXCEPT !.contended = roomName \in DOMAIN rooms
                                     /\ TookLastSlot(c, roomName)]
    /\ IF roomName \notin DOMAIN rooms
       THEN JoinRejected(c, ErrNotFound, 0)
       ELSE IF PasswordRejects(rooms[roomName], currentUser[c], password)
       THEN JoinRejected(c, ErrPassword, 0)
       ELSE IF RoomIsFull(rooms[roomName])
       THEN JoinRejected(c, ErrFull, rooms[roomName].maxUsers)
       ELSE LET prev == currentRoom[c]
                rooms1 == IF HasPrevRoom(c)
                          THEN [rooms EXCEPT ![prev].users = @ \ {c}]
                          ELSE rooms
                sr1 == IF HasPrevRoom(c)
                       THEN [sockRooms EXCEPT ![c] = @ \ {prev}]
                       ELSE sockRooms
                leftEv == IF HasPrevRoom(c)
                          THEN <<Ev("user left room", ToOthers(sr1, c, prev),
                                    prev, currentUser[c],
                                    Cardinality(rooms1[prev].users), 0, None)>>
                          ELSE <<>>
                rooms2 == [rooms1 EXCEPT ![roomName].users = @ \cup {c}]
                sr2 == [sr1 EXCEPT ![c] = @ \cup {roomName}]
                n == Cardinality(rooms2[roomName].users)
            IN  /\ rooms' = rooms2
                /\ sockRooms' = sr2
                /\ currentRoom' = [currentRoom EXCEPT ![c] = roomName]
                /\ emitted' =
                       leftEv
                       \o <<Ev("room join success", ToSelf(c), roomName, None,
                               n, 0, None),
                            Ev("user joined room", ToOthers(sr2, c, roomName),
                               roomName, currentUser[c], n, 0, None),
                            Ev("room user count", ToSelf(c), roomName, None,
                               n, 0, None)>>
                       \o Replay(c, roomName, rooms2[roomName].messages)
    /\ UNCHANGED <<status, currentUser, currentMusicRoom, musicRooms, now,
                   nextMsgId, sent, deletes>>
    /\ UNCHANGED tokenVars

\* IsOccupant without the users.has test: any socket passes for a room
\* that exists.
IsOccupant_Anyone(map, room, c) == room \in DOMAIN map

\* if (room && room.users.has(socket.id)), the test of every occupant-only
\* handler.
IsOccupant(map, room, c) == room \in DOMAIN map /\ c \in map[room].users

\* currentRoom = '' at the end of socket.on('leave room').
LeaveRoomCurrent(c, roomName) == None

\* socket.on('leave room').
LeaveRoom(c, roomName) ==
    /\ Live(c)
    /\ last' = Req("leave room", c, roomName, NoPassword, 0,
                   IsOccupant(rooms, roomName, c), 0)
    /\ IF IsOccupant(rooms, roomName, c)
       THEN LET rooms1 == [rooms EXCEPT ![roomName].users = @ \ {c}]
                sr1 == [sockRooms EXCEPT ![c] = @ \ {roomName}]
            IN  /\ rooms' = rooms1
                /\ sockRooms' = sr1
                /\ emitted' = <<Ev("user left room", ToOthers(sr1, c, roomName),
                                   roomName, currentUser[c],
                                   Cardinality(rooms1[roomName].users), 0,
                                   None)>>
       ELSE /\ emitted' = <<>>
            /\ UNCHANGED <<rooms, sockRooms>>
    /\ currentRoom' = [currentRoom EXCEPT ![c] = LeaveRoomCurrent(c, roomName)]
    /\ UNCHANGED <<status, currentUser, currentMusicRoom, musicRooms, now,
                   nextMsgId, sent, deletes>>
    /\ UNCHANGED tokenVars

\* PushTrimmed with the trim left out.
PushTrimmed_NoTrim(messages, m) == Append(messages, m)

\* PushTrimmed keeping the first HistoryCap entries, not the last.
PushTrimmed_KeepsFirst(messages, m) ==
    LET pushed == Append(messages, m)
    IN  IF Len(pushed) > HistoryCap THEN SubSeq(pushed, 1, HistoryCap)
        ELSE pushed

\* room.messages.push(messageData);
\* if (room.messages.length > 100) room.messages = room.messages.slice(-100).
PushTrimmed(messages, m) ==
    LET pushed == Append(messages, m)
    IN  IF Len(pushed) > HistoryCap THEN SliceLast(pushed, HistoryCap)
        ELSE pushed

\* socket.on('chat message') of the second server.  The id is
\* Date.now() + '_' + a random suffix: a fresh value for every message.
ChatMessage(c, roomName) ==
    /\ Live(c)
    /\ last' = Req("chat message", c, roomName, NoPassword, nextMsgId,
                   IsOccupant(rooms, roomName, c), 0)
    /\ IF IsOccupant(rooms, roomName, c)
       THEN LET m == [id |-> nextMsgId, username |-> currentUser[c]]
            IN  /\ rooms' = [rooms EXCEPT ![roomName].messages =
                                 PushTrimmed(@, m)]
                /\ sent' = [sent EXCEPT ![roomName] = Append(@, m)]
                /\ nextMsgId' = nextMsgId + 1
                /\ emitted' = <<Ev("chat message", ToRoom(sockRooms, roomName),
                                   roomName, m.username, 0, m.id, None)>>
       ELSE /\ emitted' = <<>>
            /\ UNCHANGED <<rooms, sent, nextMsgId>>
    /\ UNCHANGED <<status, currentUser, currentRoom, currentMusicRoom,
                   musicRooms, sockRooms, now, deletes>>
    /\ UNCHANGED tokenVars

\* NotAuthor with the test left out: any occupant may delete.
NotAuthor_Never(message, user) == FALSE

\* if (message.username !== currentUser) -> rejected.
NotAuthor(message, user) == message.username # user

\* socket.on('delete message').  The unlink of an attached file touches no
\* room state and is not modelled.
DeleteMessage(c, roomName, messageId) ==
    /\ Live(c)
    /\ last' = Req("delete message", c, roomName, NoPassword, messageId,
                   IsOccupant(rooms, roomName, c), 0)
    /\ IF ~IsOccupant(rooms, roomName, c)
       THEN /\ emitted' = <<Ev("delete error", ToSelf(c), None, None, 0, 0,
                               ErrNoPermission)>>
            /\ UNCHANGED <<rooms, deletes>>
       ELSE LET messageIndex == FindIndex(rooms[roomName].messages, messageId)
            IN  IF messageIndex = 0
                THEN /\ emitted' = <<Ev("delete error", ToSelf(c), None, None,
                                        0, 0, ErrNoMessage)>>
                     /\ UNCHANGED <<rooms, deletes>>
                ELSE IF NotAuthor(rooms[roomName].messages[messageIndex],
                                  currentUser[c])
                THEN /\ emitted' = <<Ev("delete error", ToSelf(c), None, None,
                                        0, 0, ErrNotAuthor)>>
                     /\ UNCHANGED <<rooms, deletes>>
                ELSE /\ rooms' = [rooms EXCEPT ![roomName].messages =
                                      Splice(@, messageIndex)]
                     /\ deletes' = [deletes EXCEPT ![roomName] = @ \cup {messageId}]
                     /\ emitted' =
                            <<Ev("message deleted", ToRoom(sockRooms, roomName),
                                 roomName, None, 0, messageId, None),
                              Ev("delete success", ToSelf(c), None, None, 0,
                                 messageId, None)>>
    /\ UNCHANGED <<status, currentUser, currentRoom, currentMusicRoom,
                   musicRooms, sockRooms, now, nextMsgId, sent>>
    /\ UNCHANGED tokenVars

\* ------------------------------------------------------------ music rooms

\* roomName.toLowerCase().replace(/\s+/g, '-') of the names in MusicNames
\* and of "jam", the lower-case spelling of one of them.
LowerDashed(roomName) ==
    CASE roomName = "Jam" -> "jam"
      [] roomName = "jam" -> "jam"
      [] roomName = "Pop" -> "pop"

\* roomId = roomName.toLowerCase().replace(/\s+/g, '-') + '-' + Date.now(),
\* as the pair of its two parts rendered to one string.
MusicRoomId(roomName, t) ==
    CASE LowerDashed(roomName) = "jam" ->
             <<"jam-0", "jam-1", "jam-2", "jam-3", "jam-4", "jam-5">>[t + 1]
      [] LowerDashed(roomName) = "pop" ->
             <<"pop-0", "pop-1", "pop-2", "pop-3", "pop-4", "pop-5">>[t + 1]

\* The room ids a client may send.
MusicIds == {MusicRoomId(n, t) : n \in MusicNames, t \in 0 .. MaxClock}

\* The newRoom object of socket.on('create music room').
NewMusicRoom(roomName, maxUsers, creator) ==
    [name |-> roomName, users |-> {},
     maxUsers |-> IF maxUsers # 0 THEN maxUsers ELSE DefaultMusicMax,
     creator |-> creator, playlist |-> <<>>, currentTrack |-> NoTrack,
     isPlaying |-> FALSE, playStartTime |-> NoTime, messages |-> <<>>]

\* socket.on('create music room').
CreateMusicRoom(c, roomName, maxUsers) ==
    /\ Live(c)
    /\ LET roomId == MusicRoomId(roomName, now)
       IN  /\ last' = Req("create music room", c, roomId, NoPassword, 0, FALSE, 0)
           /\ IF roomId \notin DOMAIN musicRooms
              THEN /\ musicRooms' =
                          (roomId :> NewMusicRoom(roomName, maxUsers,
                                                  currentUser[c]))
                          @@ musicRooms
                   /\ emitted' =
                          <<Ev("music room created", ToSelf(c), roomId, None,
                               0, 0, None),
                            Ev("music room list", ToSelf(c), None, None,
                               Cardinality(DOMAIN musicRooms'), 0, None),
                            Ev("music room list update", ToAllOthers(status, c),
                               None, None, 0, 0, None)>>
              ELSE /\ musicRooms' = musicRooms
                   /\ emitted' = <<Ev("music room join error", ToSelf(c), None,
                                      None, 0, 0, ErrMusicExists)>>
    /\ UNCHANGED <<status, currentUser, currentRoom, currentMusicRoom, rooms,
                   sockRooms, now, nextMsgId, sent, deletes>>
    /\ UNCHANGED tokenVars

\* if (room.users.size >= room.maxUsers) -> rejected.
MusicRoomIsFull(room) == Cardinality(room.users) >= room.maxUsers

\* if (currentMusicRoom) { prevRoom = musicRooms.get(currentMusicRoom); ...
HasPrevMusicRoom(c) ==
    currentMusicRoom[c] # None /\ currentMusicRoom[c] \in DOMAIN musicRooms

\* room.messages.forEach(message => socket.emit('music chat message',
\*     {...message, isPrevious: true})).
MusicReplay(c, roomId, messages) ==
    [k \in 1 .. Len(messages) |->
        Ev("music chat message replay", ToSelf(c), roomId, messages[k].user,
           0, messages[k].id, None)]

\* socket.on('join music room').
JoinMusicRoom(c, roomId) ==
    /\ Live(c)
    /\ last' = Req("join music room", c, roomId, NoPassword, 0,
                   IsOccupant(musicRooms, roomId, c),
                   IF roomId \in DOMAIN musicRooms
                   THEN FreeSlots(musicRooms[roomId]) ELSE 0)
    /\ IF roomId \notin DOMAIN musicRooms
       THEN /\ emitted' = <<Ev("music room join error", ToSelf(c), None, None,
                               0, 0, ErrMusicNotFound)>>
            /\ UNCHANGED <<musicRooms, currentMusicRoom, sockRooms>>
       ELSE IF MusicRoomIsFull(musicRooms[roomId])
       THEN /\ emitted' = <<Ev("music room join error", ToSelf(c), None, None,
                               musicRooms[roomId].maxUsers, 0, ErrMusicFull)>>
            /\ UNCHANGED <<musicRooms, currentMusicRoom, sockRooms>>
       ELSE LET prev == currentMusicRoom[c]
                rooms1 == IF HasPrevMusicRoom(c)
                          THEN [musicRooms EXCEPT ![prev].users = @ \ {c}]
                          ELSE musicRooms
                sr1 == IF HasPrevMusicRoom(c)
                       THEN [sockRooms EXCEPT ![c] = @ \ {prev}]
                       ELSE sockRooms
                leftEv == IF HasPrevMusicRoom(c)
                          THEN <<Ev("music room user left",
                                    ToOthers(sr1, c, prev), prev,
                                    currentUser[c],
                                    Cardinality(rooms1[prev].users), 0, None)>>
                          ELSE <<>>
                rooms2 == [rooms1 EXCEPT ![roomId].users = @ \cup {c}]
                sr2 == [sr1 EXCEPT ![c] = @ \cup {roomId}]
                n == Cardinality(rooms2[roomId].users)
            IN  /\ musicRooms' = rooms2
                /\ sockRooms' = sr2
                /\ currentMusicRoom' = [currentMusicRoom EXCEPT ![c] = roomId]
                /\ emitted' =
                       leftEv
                       \o <<Ev("music room join success", ToSelf(c), roomId,
                               None, n, 0, None),
                            Ev("music room user joined",
                               ToOthers(sr2, c, roomId), roomId,
                               currentUser[c], n, 0, None)>>
                       \o MusicReplay(c, roomId, rooms2[roomId].messages)
    /\ UNCHANGED <<status, currentUser, currentRoom, rooms, now, nextMsgId,
                   sent, deletes>>
    /\ UNCHANGED tokenVars

\* currentMusicRoom = '' at the end of socket.on('leave music room').
LeaveMusicRoomCurrent(c, roomId) == None

\* socket.on('leave music room').
LeaveMusicRoom(c, roomId) ==
    /\ Live(c)
    /\ last' = Req("leave music room", c, roomId, NoPassword, 0,
                   IsOccupant(musicRooms, roomId, c), 0)
    /\ IF IsOccupant(musicRooms, roomId, c)
       THEN LET rooms1 == [musicRooms EXCEPT ![roomId].users = @ \ {c}]
                sr1 == [sockRooms EXCEPT ![c] = @ \ {roomId}]
            IN  /\ musicRooms' = rooms1
                /\ sockRooms' = sr1
                /\ emitted' = <<Ev("music room user left",
                                   ToOthers(sr1, c, roomId), roomId,
                                   currentUser[c],
                                   Cardinality(rooms1[roomId].users), 0, None)>>
       ELSE /\ emitted' = <<>>
            /\ UNCHANGED <<musicRooms, sockRooms>>
    /\ currentMusicRoom' =
           [currentMusicRoom EXCEPT ![c] = LeaveMusicRoomCurrent(c, roomId)]
    /\ UNCHANGED <<status, currentUser, currentRoom, rooms, now, nextMsgId,
                   sent, deletes>>
    /\ UNCHANGED tokenVars

\* user: user || currentUser of the music message handlers.
MessageUser(c, user) == IF user # None THEN user ELSE currentUser[c]

\* socket.on('music chat message'): the message is pushed and the history
\* trimmed as in a chat room.  The id is Date.now() + '_' + a random suffix:
\* a fresh value for every message.
MusicChatMessage(c, roomId, user) ==
    /\ Live(c)
    /\ last' = Req("music chat message", c, roomId, NoPassword, nextMsgId,
                   IsOccupant(musicRooms, roomId, c), 0)
    /\ IF IsOccupant(musicRooms, roomId, c)
       THEN LET messageData == [id |-> nextMsgId, user |-> MessageUser(c, user)]
            IN  /\ musicRooms' = [musicRooms EXCEPT ![roomId].messages =
                                      PushTrimmed(@, messageData)]
                /\ nextMsgId' = nextMsgId + 1
                /\ emitted' = <<Ev("music chat message",
                                   ToRoom(sockRooms, roomId), roomId,
                                   messageData.user, 0, messageData.id, None)>>
       ELSE /\ emitted' = <<>>
            /\ UNCHANGED <<musicRooms, nextMsgId>>
    /\ UNCHANGED <<status, currentUser, currentRoom, currentMusicRoom, rooms,
                   sockRooms, now, sent, deletes>>
    /\ UNCHANGED tokenVars

\* PushVoice trimming the history as the chat path does.
PushVoice_Trimmed(messages, m) == PushTrimmed(messages, m)

\* room.messages.push(voiceData), with no trim after it.
PushVoice(messages, m) == Append(messages, m)

\* socket.on('music voice message').
MusicVoiceMessage(c, roomId, user) ==
    /\ Live(c)
    /\ last' = Req("music voice message", c, roomId, NoPassword, nextMsgId,
                   IsOccupant(musicRooms, roomId, c), 0)
    /\ IF IsOccupant(musicRooms, roomId, c)
       THEN LET voiceData == [id |-> nextMsgId, user |-> MessageUser(c, user)]
            IN  /\ musicRooms' = [musicRooms EXCEPT ![roomId].messages =
                                      PushVoice(@, voiceData)]
                /\ nextMsgId' = nextMsgId + 1
                /\ emitted' = <<Ev("music chat message",
                                   ToRoom(sockRooms, roomId), roomId,
                                   voiceData.user, 0, voiceData.id, None)>>
       ELSE /\ emitted' = <<>>
            /\ UNCHANGED <<musicRooms, nextMsgId>>
    /\ UNCHANGED <<status, currentUser, currentRoom, currentMusicRoom, rooms,
                   sockRooms, now, sent, deletes>>
    /\ UNCHANGED tokenVars

\* ------------------------------------------------------------- disconnect

\* The rooms socket.on('disconnect') clears of the socket: the room named
\* by the closure variable, when it is set and the room exists.
DisconnectTargets(map, current) ==
    IF current # None /\ current \in DOMAIN map THEN {current} ELSE {}

\* ------------------------------------------------------ playlist, transport

\* An emitted event that carries transport state: the current track (by
\* its id), the playing flag and the start stamp.
TransportEv(ev, to, roomId, track, isPlaying, playStartTime) ==
    Ev(ev, to, roomId, None, 0, track, None)
    @@ [isPlaying |-> isPlaying, playStartTime |-> playStartTime]

\* The id of a new track, Date.now() + '_' + a random suffix: a value no
\* track of the playlist has.  Tracks are never removed, so the length of
\* the playlist plus one is such a value.
NewTrackId(playlist) == Len(playlist) + 1

\* FindTrack taking the request at its word: a track of the id asked for.
FindTrack_Trusting(playlist, trackId) == trackId

\* room.playlist.find(t => t.id === trackId): the first track with the id,
\* given by its id; NoTrack when find returns undefined.
FindTrack(playlist, trackId) ==
    IF \E k \in 1 .. Len(playlist) : playlist[k].id = trackId
    THEN LET k == CHOOSE k \in 1 .. Len(playlist) :
                      /\ playlist[k].id = trackId
                      /\ \A j \in 1 .. k - 1 : playlist[j].id # trackId
         IN  playlist[k].id
    ELSE NoTrack

\* AddTrack putting the track at the head of the playlist.
AddTrack_Front(playlist, trackData) == <<trackData>> \o playlist

\* room.playlist.push(trackData).
AddTrack(playlist, trackData) == Append(playlist, trackData)

\* socket.on('music uploaded'): a track at the end of the playlist, a
\* 'playlist update', and a system message pushed to the room's messages
\* (with no trim) and emitted.
MusicUploaded(c, roomId) ==
    /\ Live(c)
    /\ last' = Req("music uploaded", c, roomId, NoPassword, 0,
                   IsOccupant(musicRooms, roomId, c), 0)
    /\ IF IsOccupant(musicRooms, roomId, c)
       THEN LET room == musicRooms[roomId]
                trackData == [id |-> NewTrackId(room.playlist),
                              uploader |-> currentUser[c]]
                systemMessage == [id |-> now, user |-> "SYSTEM"]
            IN  /\ musicRooms' =
                       [musicRooms EXCEPT
                            ![roomId].playlist = AddTrack(@, trackData),
                            ![roomId].messages = Append(@, systemMessage)]
                /\ emitted' =
                       <<[TransportEv("playlist update",
                                      ToRoom(sockRooms, roomId), roomId,
                                      room.currentTrack, room.isPlaying,
                                      room.playStartTime)
                             EXCEPT !.count = Len(room.playlist) + 1],
                         Ev("music chat message", ToRoom(sockRooms, roomId),
                            roomId, systemMessage.user, 0, systemMessage.id,
                            None)>>
       ELSE /\ emitted' = <<>>
            /\ UNCHANGED musicRooms
    /\ UNCHANGED <<status, currentUser, currentRoom, currentMusicRoom, rooms,
                   sockRooms, now, nextMsgId, sent, deletes>>
    /\ UNCHANGED tokenVars

\* socket.on('play track').
PlayTrack(c, roomId, trackId) ==
    /\ Live(c)
    /\ last' = Req("play track", c, roomId, NoPassword, trackId,
                   IsOccupant(musicRooms, roomId, c), 0)
    /\ IF /\ IsOccupant(musicRooms, roomId, c)
          /\ FindTrack(musicRooms[roomId].playlist, trackId) # NoTrack
       THEN LET track == FindTrack(musicRooms[roomId].playlist, trackId)
            IN  /\ musicRooms' = [musicRooms EXCEPT
                                      ![roomId].currentTrack = track,
                                      ![roomId].isPlaying = TRUE,
                                      ![roomId].playStartTime = now]
                /\ emitted' = <<TransportEv("track changed",
                                            ToRoom(sockRooms, roomId), roomId,
                                            track, TRUE, now)>>
       ELSE /\ emitted' = <<>>
            /\ UNCHANGED musicRooms
    /\ UNCHANGED <<status, currentUser, currentRoom, currentMusicRoom, rooms,
                   sockRooms, now, nextMsgId, sent, deletes>>
    /\ UNCHANGED tokenVars

\* ToggleStamp stamping on every toggle, the pause included.
ToggleStamp_Always(room, isPlaying, t) == t

\* ToggleStamp clearing the stamp on a pause.
ToggleStamp_Cleared(room, isPlaying, t) == IF isPlaying THEN t ELSE NoTime

\* if (room.isPlaying) room.playStartTime = Date.now(), after the flip.
ToggleStamp(room, isPlaying, t) ==
    IF isPlaying THEN t ELSE room.playStartTime

\* socket.on('toggle playback').
TogglePlayback(c, roomId) ==
    /\ Live(c)
    /\ last' = Req("toggle playback", c, roomId, NoPassword, 0,
                   IsOccupant(musicRooms, roomId, c), 0)
    /\ IF IsOccupant(musicRooms, roomId, c)
       THEN LET room == musicRooms[roomId]
                isPlaying == ~room.isPlaying
                playStartTime == ToggleStamp(room, isPlaying, now)
            IN  /\ musicRooms' = [musicRooms EXCEPT
                                      ![roomId].isPlaying = isPlaying,
                                      ![roomId].playStartTime = playStartTime]
                /\ emitted' = <<[TransportEv("playback toggled",
                                             ToRoom(sockRooms, roomId), roomId,
                                             NoTrack, isPlaying, playStartTime)
                                    EXCEPT !.mid = 0]>>
       ELSE /\ emitted' = <<>>
            /\ UNCHANGED musicRooms
    /\ UNCHANGED <<status, currentUser, currentRoom, currentMusicRoom, rooms,
                   sockRooms, now, nextMsgId, sent, deletes>>
    /\ UNCHANGED tokenVars

\* socket.on('disconnect').  socket.io has taken the socket out of every
\* adapter room before the handler runs.  No handler of a closed socket runs
\* again, so its closure variables are dead and are cleared with it.
Disconnect(c) ==
    /\ Live(c)
    /\ status' = [status EXCEPT ![c] = "closed"]
    /\ last' = Req("disconnect", c, None, NoPassword, 0, FALSE, 0)
    /\ LET sr1 == [sockRooms EXCEPT ![c] = {}]
           chat == DisconnectTargets(rooms, currentRoom[c])
           music == DisconnectTargets(musicRooms, currentMusicRoom[c])
           rooms1 == [r \in DOMAIN rooms |->
                         IF r \in chat
                         THEN [rooms[r] EXCEPT !.users = @ \ {c}]
                         ELSE rooms[r]]
           music1 == [r \in DOMAIN musicRooms |->
                         IF r \in music
                         THEN [musicRooms[r] EXCEPT !.users = @ \ {c}]
                         ELSE musicRooms[r]]
           chatEv == IF chat # {}
                     THEN <<Ev("user left room",
                               ToOthers(sr1, c, currentRoom[c]),
                               currentRoom[c], currentUser[c],
                               Cardinality(rooms1[currentRoom[c]].users), 0,
                               None)>>
                     ELSE <<>>
           musicEv == IF music # {}
                      THEN <<Ev("music room user left",
                                ToOthers(sr1, c, currentMusicRoom[c]),
                                currentMusicRoom[c], currentUser[c],
                                Cardinality(
                                    music1[currentMusicRoom[c]].users), 0,
                                None)>>
                      ELSE <<>>
       IN  /\ sockRooms' = sr1
           /\ rooms' = rooms1
           /\ musicRooms' = music1
           /\ emitted' = chatEv \o musicEv
    /\ currentUser' = [currentUser EXCEPT ![c] = None]
    /\ currentRoom' = [currentRoom EXCEPT ![c] = None]
    /\ currentMusicRoom' = [currentMusicRoom EXCEPT ![c] = None]
    /\ UNCHANGED <<now, nextMsgId, sent, deletes>>
    /\ UNCHANGED tokenVars

\* The wall clock moves on between two events.
Tick ==
    /\ now < MaxClock
    /\ now' = now + 1
    /\ UNCHANGED <<status, currentUser, currentRoom, currentMusicRoom, rooms,
                   musicRooms, sockRooms, nextMsgId, sent, deletes, last,
                   emitted>>
    /\ UNCHANGED tokenVars

\* ---------------------------------------------------------------- the wire

\* The events of one handler run as they go out: each with the number of
\* the run and its place among the run's emits.
Tagged(em, n) ==
    [k \in 1 .. Len(em) |->
        [n |-> n, k |-> k, ev |-> em[k].ev, room |-> em[k].room,
         mid |-> em[k].mid, to |-> em[k].to]]

\* The room events of a run that are addressed to socket c, in emit order.
Outgoing(em, n, c) ==
    LET ForC(e) == c \in e.to /\ e.room # None
    IN  SelectSeq(Tagged(em, n), ForC)

\* emit: socket.io writes each event of the handler that has just run to
\* the connection of every socket it is addressed to, in emit order,
\* behind what was written before.
Wired ==
    LET n == accepted + 1
    IN  IF \A c \in Conns : Outgoing(emitted', n, c) = <<>>
        THEN UNCHANGED wireVars
        ELSE /\ accepted' = n
             /\ wire' = [c \in Conns |-> wire[c] \o Outgoing(emitted', n, c)]
             /\ seen' = seen

\* NextOnWire taking the event written last.
NextOnWire_Last(q) == Len(q)

\* The event of a connection that reaches the client next: the one written
\* first (a connection delivers its packets in the order written).
NextOnWire(q) == 1

\* The client of socket c receives the next event of its connection.
Deliver(c) ==
    /\ Live(c)
    /\ wire[c] # <<>>
    /\ LET i == NextOnWire(wire[c])
       IN  /\ seen' = [seen EXCEPT ![c] = Append(@, wire[c][i])]
           /\ wire' = [wire EXCEPT ![c] = Splice(@, i)]
    /\ UNCHANGED <<accepted, last, emitted>>
    /\ UNCHANGED chatVars
    /\ UNCHANGED tokenVars

\* ------------------------------------------- first server: the token join

\* Tokens a client may send: none, one jwt.verify accepts, one it rejects.
Tokens == {"none", "good", "bad"}

\* max_output_per_batch of the subscription plans in the database.
TokenCaps == {1, 2}

\* What an awaited pool.query gives: a row, no row, or a rejection.
QueryOutcomes == {"row", "empty", "error"}

\* The messages of the first server's 'room full' and 'error' events.
ErrTokenFull == "Room is full. Upgrade your plan"
ErrJoinFailed == "Failed to join room"

\* catch (error) { socket.emit('error', {message: 'Failed to join room'}) }.
TokenFailed(c, out) ==
    /\ emitted' = <<Ev("error", ToSelf(c), None, None, 0, 0, ErrJoinFailed)>>
    /\ tJoin' = [tJoin EXCEPT ![c] = IdleJoin]
    /\ tOut' = [tOut EXCEPT ![c] = [out EXCEPT !.result = "failed"]]
    /\ UNCHANGED <<tCurrentRoom, tRooms>>

\* The room names sent to the first server.
TokenRooms == {"A"}

\* Array.from(io.sockets.adapter.rooms.get(roomName) || []).length.
TokenRoomSize(members, roomName) ==
    Cardinality({d \in Conns : roomName \in members[d]})

\* The room size read before the awaits: the size when the join was sent.
TokenSizeAtCheck_Stale(c, roomName) == tOut[c].start

\* The room size the capacity test in the handler of socket c reads: the
\* adapter room as it is once the subscription query has returned.
TokenSizeAtCheck(c, roomName) == TokenRoomSize(tRooms, roomName)

\* TokenRoomFull with > for >=: the room takes one member past the cap.
TokenRoomFull_OffByOne(size, maxUsers) == size > maxUsers

\* if (roomUsers.length >= maxUsers) -> 'room full'.
TokenRoomFull(size, maxUsers) == size >= maxUsers

\* io.on('connection') of the first server.
TConnect(c) ==
    /\ tStatus[c] = "fresh"
    /\ tStatus' = [tStatus EXCEPT ![c] = "live"]
    /\ last' = Req("token connection", c, None, NoPassword, 0, FALSE, 0)
    /\ emitted' = <<>>
    /\ UNCHANGED <<tUser, tCurrentRoom, tRooms, tJoin, tOut>>
    /\ UNCHANGED chatVars

\* socket.join(roomName); socket.currentRoom = roomName;
\* io.to(roomName).emit('user count', roomUsers.length): the end of the
\* handler when no capacity test turned the socket away.  out is the
\* record of what the handler saw.
TokenAdmit(c, roomName, out) ==
    LET tr == [tRooms EXCEPT ![c] = @ \cup {roomName}]
    IN  /\ tRooms' = tr
        /\ tCurrentRoom' = [tCurrentRoom EXCEPT ![c] = roomName]
        /\ tJoin' = [tJoin EXCEPT ![c] = IdleJoin]
        /\ tOut' = [tOut EXCEPT ![c] = [out EXCEPT !.result = "joined"]]
        /\ emitted' = <<Ev("user count", ToRoom(tr, roomName), roomName,
                           None, TokenRoomSize(tr, roomName), 0, None)>>

\* The first segment of socket.on('join room'): up to the first await, or
\* to the end when no token is sent or jwt.verify throws.  One handler per
\* socket is in flight at a time.
TJoinStart(c, roomName, token) ==
    /\ tStatus[c] = "live"
    /\ tJoin[c].pc = "idle"
    /\ last' = Req("token join room", c, roomName, NoPassword, 0,
                   roomName \in tRooms[c], 0)
    /\ LET out == [result |-> "none", room |-> roomName, cap |-> 0,
                   was |-> roomName \in tRooms[c],
                   start |-> TokenRoomSize(tRooms, roomName)]
       IN  CASE token = "none" ->
                    /\ TokenAdmit(c, roomName, out)
                    /\ UNCHANGED tUser
             [] token = "bad" ->
                    /\ TokenFailed(c, out)
                    /\ UNCHANGED tUser
             [] token = "good" ->
                    /\ tJoin' = [tJoin EXCEPT ![c] =
                                     [pc |-> "user", room |-> roomName]]
                    /\ tOut' = [tOut EXCEPT ![c] = out]
                    /\ emitted' = <<>>
                    /\ UNCHANGED <<tUser, tCurrentRoom, tRooms>>
    /\ UNCHANGED tStatus
    /\ UNCHANGED chatVars

\* The second segment: the users query has settled.
TUserResult(c, outcome) ==
    /\ tJoin[c].pc = "user"
    /\ last' = Req("token user query", c, tJoin[c].room, NoPassword, 0,
                   tJoin[c].room \in tRooms[c], 0)
    /\ CASE outcome = "row" ->
                /\ tUser' = [tUser EXCEPT ![c] = TRUE]
                /\ tJoin' = [tJoin EXCEPT ![c].pc = "sub"]
                /\ emitted' = <<>>
                /\ UNCHANGED <<tCurrentRoom, tRooms, tOut>>
         [] outcome = "empty" ->
                /\ TokenAdmit(c, tJoin[c].room, tOut[c])
                /\ UNCHANGED tUser
         [] outcome = "error" ->
                /\ TokenFailed(c, tOut[c])
                /\ UNCHANGED tUser
    /\ UNCHANGED tStatus
    /\ UNCHANGED chatVars

\* The third segment: the subscription query has settled, with a plan of
\* max_output_per_batch = maxUsers, with no row or with a rejection; the
\* capacity test and the join follow with no await between them.
TSubResult(c, outcome, maxUsers) ==
    /\ tJoin[c].pc = "sub"
    /\ LET roomName == tJoin[c].room
           size == TokenSizeAtCheck(c, roomName)
       IN  /\ last' = Req("token subscription query", c, roomName, NoPassword,
                          0, roomName \in tRooms[c], maxUsers - size)
           /\ CASE outcome = "row" /\ TokenRoomFull(size, maxUsers) ->
                      /\ emitted' = <<Ev("room full", ToSelf(c), None, None,
                                         maxUsers, 0, ErrTokenFull)>>
                      /\ tJoin' = [tJoin EXCEPT ![c] = IdleJoin]
                      /\ tOut' = [tOut EXCEPT ![c].result = "full",
                                              ![c].cap = maxUsers]
                      /\ UNCHANGED <<tCurrentRoom, tRooms>>
                [] outcome = "row" /\ ~TokenRoomFull(size, maxUsers) ->
                      TokenAdmit(c, roomName, [tOut[c] EXCEPT !.cap = maxUsers])
                [] outcome = "empty" ->
                      TokenAdmit(c, roomName, tOut[c])
                [] outcome = "error" ->
                      TokenFailed(c, tOut[c])
    /\ UNCHANGED <<tStatus, tUser>>
    /\ UNCHANGED chatVars

\* ---------------------------------------------------------- specifications

\* The step leaves the wire alone: the specification does not follow the
\* events past the emit.
Unwired == UNCHANGED wireVars


\* The sockets that take part in the two-socket specifications.
RoomConns == {"s1", "s2"}

\* maxUsers values sent in the membership specification, for a chat room
\* and for a music room.
RoomMaxInputs == {0, 1}
MusicMaxInputs == {1}

\* Room membership of both room kinds: connect, create, join, leave,
\* disconnect.  The clock stands still: music room ids differ by name.
NextRooms ==
    \/ \E c \in RoomConns : Connect(c) /\ Unwired
    \/ \E c \in RoomConns : Disconnect(c) /\ Unwired
    \/ \E c \in RoomConns, r \in RoomNames, m \in RoomMaxInputs :
           CreateRoom(c, r, m, NoPassword) /\ Unwired
    \/ \E c \in RoomConns, r \in RoomNames : JoinRoom(c, r, NoPassword)
           /\ Unwired
    \/ \E c \in RoomConns, r \in RoomNames : LeaveRoom(c, r) /\ Unwired
    \/ \E c \in RoomConns, n \in MusicNames, m \in MusicMaxInputs :
           CreateMusicRoom(c, n, m) /\ Unwired
    \/ \E c \in RoomConns, n \in MusicNames :
           JoinMusicRoom(c, MusicRoomId(n, now)) /\ Unwired
    \/ \E c \in RoomConns, n \in MusicNames :
           LeaveMusicRoom(c, MusicRoomId(n, now)) /\ Unwired

SpecRooms == Init /\ [][NextRooms]_vars

\* No socket has connected to the second server / to the first server.
ChatQuiet == \A c \in Conns : status[c] = "fresh"
TokenQuiet == \A c \in Conns : tStatus[c] = "fresh"

\* Three sockets racing for rooms: a run of the second server (create,
\* join, leave, disconnect, limits up to two occupants), or a run of the
\* first (its join, segment by segment).  The file holds the two servers; a
\* process runs one of them.
NextRace ==
    \/ \E c \in Conns : TokenQuiet /\ Connect(c) /\ Unwired
    \/ \E c \in Conns : Disconnect(c) /\ Unwired
    \/ \E c \in Conns, r \in RoomNames, m \in MaxUsersInputs :
           CreateRoom(c, r, m, NoPassword) /\ Unwired
    \/ \E c \in Conns, r \in RoomNames : JoinRoom(c, r, NoPassword) /\ Unwired
    \/ \E c \in Conns, r \in RoomNames : LeaveRoom(c, r) /\ Unwired
    \/ \E c \in Conns : ChatQuiet /\ TConnect(c) /\ Unwired
    \/ \E c \in Conns, r \in TokenRooms, t \in Tokens : TJoinStart(c, r, t)
           /\ Unwired
    \/ \E c \in Conns, q \in QueryOutcomes : TUserResult(c, q) /\ Unwired
    \/ \E c \in Conns, q \in QueryOutcomes, m \in TokenCaps :
           TSubResult(c, q, m) /\ Unwired

SpecRace == Init /\ [][NextRace]_vars

\* Two sockets, display names and password-protected chat rooms.
NextPass ==
    \/ \E c \in RoomConns : Connect(c) /\ Unwired
    \/ \E c \in RoomConns : Disconnect(c) /\ Unwired
    \/ \E c \in RoomConns : UserJoin(c, "ann") /\ Unwired
    \/ \E c \in RoomConns, r \in RoomNames, m \in RoomMaxInputs,
          p \in {NoPassword, "pw"} :
           CreateRoom(c, r, m, p) /\ Unwired
    \/ \E c \in RoomConns, r \in RoomNames, p \in Passwords :
           JoinRoom(c, r, p) /\ Unwired
    \/ \E c \in RoomConns, r \in RoomNames : LeaveRoom(c, r) /\ Unwired

SpecPass == Init /\ [][NextPass]_vars

\* The room, the socket and the display name of the long history.
HistRoom == "A"
HistConn == "s1"
HistUser == "ann"

\* The history of a room after n sends by HistUser and no delete.
Prefill(n) == [k \in 1 .. n |-> [id |-> k, username |-> HistUser]]

\* The number of messages already sent to HistRoom: one short of the cap.
PrefillLen == HistoryCap - 1

\* The state after HistConn connected, took the name HistUser, created
\* HistRoom with no limit and no password, joined it and sent PrefillLen
\* messages to it.
InitLongHistory ==
    /\ status = [c \in Conns |-> IF c = HistConn THEN "live" ELSE "fresh"]
    /\ currentUser = [c \in Conns |-> IF c = HistConn THEN HistUser ELSE None]
    /\ currentRoom = [c \in Conns |-> IF c = HistConn THEN HistRoom ELSE None]
    /\ currentMusicRoom = [c \in Conns |-> None]
    /\ rooms = (HistRoom :> [NewRoom(NoLimit, NoPassword, HistUser)
                                EXCEPT !.users = {HistConn},
                                       !.messages = Prefill(PrefillLen)])
    /\ musicRooms = <<>>
    /\ sockRooms = [c \in Conns |-> IF c = HistConn THEN {HistRoom} ELSE {}]
    /\ now = 0
    /\ nextMsgId = PrefillLen + 1
    /\ sent = [r \in RoomNames |->
                  IF r = HistRoom THEN Prefill(PrefillLen) ELSE <<>>]
    /\ deletes = [r \in RoomNames |-> {}]
    /\ last = Req("chat message", HistConn, HistRoom, NoPassword, PrefillLen,
                  TRUE, 0)
    /\ emitted = <<Ev("chat message", {HistConn}, HistRoom, HistUser, 0,
                      PrefillLen, None)>>
    /\ tStatus = [c \in Conns |-> "fresh"]
    /\ tUser = [c \in Conns |-> FALSE]
    /\ tCurrentRoom = [c \in Conns |-> None]
    /\ tRooms = [c \in Conns |-> {}]
    /\ tJoin = [c \in Conns |-> IdleJoin]
    /\ tOut = [c \in Conns |-> NoOutcome]
    /\ WireIdle

\* Short histories grow from the start; long ones from PrefillLen messages.
InitHist == Init \/ InitLongHistory

\* Sends are counted up to MaxMsgs from the start and up to MaxExtra past
\* the cap from the long history.
SendAllowed ==
    \/ nextMsgId <= MaxMsgs
    \/ nextMsgId > PrefillLen /\ nextMsgId <= HistoryCap + MaxExtra

\* The message ids delete requests name: old, at the cap and past it.
HistDeleteIds == {1, HistoryCap, HistoryCap + 1}

\* Two sockets sending to and deleting from the history of one room.
NextHist ==
    \/ \E c \in RoomConns : Connect(c) /\ Unwired
    \/ \E c \in RoomConns : UserJoin(c, HistUser) /\ Unwired
    \/ \E c \in RoomConns : CreateRoom(c, HistRoom, NoLimit, NoPassword)
           /\ Unwired
    \/ \E c \in RoomConns : JoinRoom(c, HistRoom, NoPassword) /\ Unwired
    \/ \E c \in RoomConns : LeaveRoom(c, HistRoom) /\ Unwired
    \/ \E c \in RoomConns : SendAllowed /\ ChatMessage(c, HistRoom) /\ Unwired
    \/ \E c \in RoomConns, m \in HistDeleteIds :
           DeleteMessage(c, HistRoom, m) /\ Unwired

SpecHist == InitHist /\ [][NextHist]_vars

\* The message ids delete requests name: those sent by the end of a run,
\* so not yet sent, in the history or deleted when the request comes.
ChatDeleteIds == 1 .. MaxMsgs

\* The display names a socket takes: HistConn its own, the other socket the
\* same name or another.
ChatNames(c) == IF c = HistConn THEN {HistUser} ELSE UserNames

\* Two sockets with display names sending to and deleting from one room;
\* deletes may also name a room that does not exist.
NextChat ==
    \/ \E c \in RoomConns : Connect(c) /\ Unwired
    \/ \E c \in RoomConns : \E u \in ChatNames(c) : UserJoin(c, u) /\ Unwired
    \/ \E c \in RoomConns : CreateRoom(c, HistRoom, NoLimit, NoPassword)
           /\ Unwired
    \/ \E c \in RoomConns : JoinRoom(c, HistRoom, NoPassword) /\ Unwired
    \/ \E c \in RoomConns : LeaveRoom(c, HistRoom) /\ Unwired
    \/ \E c \in RoomConns : nextMsgId <= MaxMsgs /\ ChatMessage(c, HistRoom)
           /\ Unwired
    \/ \E c \in RoomConns, r \in RoomNames, m \in ChatDeleteIds :
           DeleteMessage(c, r, m) /\ Unwired

SpecChat == Init /\ [][NextChat]_vars

\* Largest number of tracks uploaded to one playlist.
MaxTracks == 2

\* The music room of the transport runs, created at time 0, and the ids
\* requests name: that room's and one no room has.
TransportName == "Jam"
TransportIds == {MusicRoomId(TransportName, 0), MusicRoomId("Pop", 0)}

\* The track ids play requests name: every id uploaded and one never
\* uploaded.
TransportTracks == 1 .. MaxTracks + 1

\* Uploads are counted up to MaxTracks per playlist.
UploadAllowed(roomId) ==
    roomId \in DOMAIN musicRooms
        => Len(musicRooms[roomId].playlist) < MaxTracks

\* Two sockets sharing the playlist and the transport of one music room
\* while the clock advances.
NextMusic ==
    \/ \E c \in RoomConns : Connect(c) /\ Unwired
    \/ \E c \in RoomConns :
           now = 0 /\ CreateMusicRoom(c, TransportName, NoLimit) /\ Unwired
    \/ \E c \in RoomConns, r \in TransportIds : JoinMusicRoom(c, r) /\ Unwired
    \/ \E c \in RoomConns, r \in TransportIds : LeaveMusicRoom(c, r)
           /\ Unwired
    \/ \E c \in RoomConns, r \in TransportIds :
           UploadAllowed(r) /\ MusicUploaded(c, r) /\ Unwired
    \/ \E c \in RoomConns, r \in TransportIds, t \in TransportTracks :
           PlayTrack(c, r, t) /\ Unwired
    \/ \E c \in RoomConns, r \in TransportIds : TogglePlayback(c, r)
           /\ Unwired
    \/ Tick /\ Unwired

SpecMusic == Init /\ [][NextMusic]_vars

\* Two sockets creating, joining and writing to one room name, with and
\* without a limit and a password.
NextCreate ==
    \/ \E c \in RoomConns : Connect(c) /\ Unwired
    \/ \E c \in RoomConns : UserJoin(c, HistUser) /\ Unwired
    \/ \E c \in RoomConns, r \in RoomNames, m \in RoomMaxInputs,
          p \in {NoPassword, "pw"} :
           CreateRoom(c, r, m, p) /\ Unwired
    \/ \E c \in RoomConns, p \in {NoPassword, "pw"} :
           JoinRoom(c, HistRoom, p) /\ Unwired
    \/ \E c \in RoomConns : nextMsgId <= MaxMsgs /\ ChatMessage(c, HistRoom)
           /\ Unwired

SpecCreate == Init /\ [][NextCreate]_vars

\* Two sockets meeting every rejection: creates, joins with and without the
\* password, one send and deletes in one chat room, or creates and joins of
\* a music room of one place.  A run works with chat rooms or with music
\* rooms.
NextReject ==
    \/ \E c \in RoomConns : Connect(c) /\ Unwired
    \/ \E c \in RoomConns : \E u \in ChatNames(c) : UserJoin(c, u) /\ Unwired
    \/ \E c \in RoomConns, m \in RoomMaxInputs, p \in {NoPassword, "pw"} :
           musicRooms = <<>> /\ CreateRoom(c, HistRoom, m, p) /\ Unwired
    \/ \E c \in RoomConns, p \in {NoPassword, "pw"} :
           JoinRoom(c, HistRoom, p) /\ Unwired
    \/ \E c \in RoomConns :
           sent[HistRoom] = <<>> /\ ChatMessage(c, HistRoom) /\ Unwired
    \/ \E c \in RoomConns, m \in ChatDeleteIds :
           DeleteMessage(c, HistRoom, m) /\ Unwired
    \/ \E c \in RoomConns, m \in MusicMaxInputs :
           rooms = <<>> /\ CreateMusicRoom(c, TransportName, m) /\ Unwired
    \/ \E c \in RoomConns :
           JoinMusicRoom(c, MusicRoomId(TransportName, 0)) /\ Unwired

SpecReject == Init /\ [][NextReject]_vars

\* The music room of the long history, created by HistConn at time 0.
VoiceRoom == MusicRoomId(TransportName, 0)

\* The history of a music room after n messages by HistUser.
MusicPrefill(n) == [k \in 1 .. n |-> [id |-> k, user |-> HistUser]]

\* The state after HistConn connected, took the name HistUser, created the
\* music room VoiceRoom at time 0, joined it and sent PrefillLen chat
\* messages to it.
InitLongMusic ==
    /\ status = [c \in Conns |-> IF c = HistConn THEN "live" ELSE "fresh"]
    /\ currentUser = [c \in Conns |-> IF c = HistConn THEN HistUser ELSE None]
    /\ currentRoom = [c \in Conns |-> None]
    /\ currentMusicRoom =
           [c \in Conns |-> IF c = HistConn THEN VoiceRoom ELSE None]
    /\ rooms = <<>>
    /\ musicRooms =
           (VoiceRoom :> [NewMusicRoom(TransportName, NoLimit, HistUser)
                             EXCEPT !.users = {HistConn},
                                    !.messages = MusicPrefill(PrefillLen)])
    /\ sockRooms = [c \in Conns |-> IF c = HistConn THEN {VoiceRoom} ELSE {}]
    /\ now = 0
    /\ nextMsgId = PrefillLen + 1
    /\ sent = [r \in RoomNames |-> <<>>]
    /\ deletes = [r \in RoomNames |-> {}]
    /\ last = Req("music chat message", HistConn, VoiceRoom, NoPassword,
                  PrefillLen, TRUE, 0)
    /\ emitted = <<Ev("music chat message", {HistConn}, VoiceRoom, HistUser, 0,
                      PrefillLen, None)>>
    /\ tStatus = [c \in Conns |-> "fresh"]
    /\ tUser = [c \in Conns |-> FALSE]
    /\ tCurrentRoom = [c \in Conns |-> None]
    /\ tRooms = [c \in Conns |-> {}]
    /\ tJoin = [c \in Conns |-> IdleJoin]
    /\ tOut = [c \in Conns |-> NoOutcome]
    /\ WireIdle

\* Short music histories grow from the start; long ones from PrefillLen
\* messages.
InitVoice == Init \/ InitLongMusic

\* The user field a music message carries: none, or a name of the client's
\* choosing.
VoiceUsers == {None, "eve"}

\* Two sockets writing chat and voice messages to the history of one music
\* room.
NextVoice ==
    \/ \E c \in RoomConns : Connect(c) /\ Unwired
    \/ \E c \in RoomConns : CreateMusicRoom(c, TransportName, NoLimit)
           /\ Unwired
    \/ \E c \in RoomConns : JoinMusicRoom(c, VoiceRoom) /\ Unwired
    \/ \E c \in RoomConns : LeaveMusicRoom(c, VoiceRoom) /\ Unwired
    \/ \E c \in RoomConns, u \in VoiceUsers :
           SendAllowed /\ MusicChatMessage(c, VoiceRoom, u) /\ Unwired
    \/ \E c \in RoomConns, u \in VoiceUsers :
           SendAllowed /\ MusicVoiceMessage(c, VoiceRoom, u) /\ Unwired

SpecVoice == InitVoice /\ [][NextVoice]_vars

\* The display names sent in the creation runs: one name in two spellings
\* that give the same id within a millisecond, and another name.
CreateNames == MusicNames \cup {"jam"}

\* Two sockets creating music rooms under a few display names while the
\* clock advances; they join and leave, and one may disconnect.
NextMusicCreate ==
    \/ \E c \in RoomConns : Connect(c) /\ Unwired
    \/ \E c \in RoomConns : Disconnect(c) /\ Unwired
    \/ \E c \in RoomConns, n \in CreateNames, m \in MusicMaxInputs :
           CreateMusicRoom(c, n, m) /\ Unwired
    \/ \E c \in RoomConns, r \in MusicIds : JoinMusicRoom(c, r) /\ Unwired
    \/ Tick /\ Unwired

SpecMusicCreate == Init /\ [][NextMusicCreate]_vars

\* A chat room name a client may send that is also the id of the music
\* room created under TransportName at time 0: socket.join(roomName) and
\* socket.join(roomId) name adapter rooms of one namespace.
SharedName == MusicRoomId(TransportName, 0)

\* The chat room names of the shared-namespace runs.
SharedRooms == {HistRoom, SharedName}

\* No playlist holds a track: the runs upload one track.
NoTrackYet == \A r \in DOMAIN musicRooms : musicRooms[r].playlist = <<>>

\* Two sockets in chat rooms and a music room whose adapter room has the
\* name of one of the chat rooms: joins, switches, leaves, and the events
\* addressed to one room.
NextShared ==
    \/ \E c \in RoomConns : Connect(c) /\ Unwired
    \/ \E c \in RoomConns, r \in SharedRooms :
           CreateRoom(c, r, NoLimit, NoPassword) /\ Unwired
    \/ \E c \in RoomConns, r \in SharedRooms : JoinRoom(c, r, NoPassword)
           /\ Unwired
    \/ \E c \in RoomConns, r \in SharedRooms : LeaveRoom(c, r) /\ Unwired
    \/ \E c \in RoomConns : CreateMusicRoom(c, TransportName, NoLimit)
           /\ Unwired
    \/ \E c \in RoomConns : JoinMusicRoom(c, SharedName) /\ Unwired
    \/ \E c \in RoomConns : LeaveMusicRoom(c, SharedName) /\ Unwired
    \/ \E c \in RoomConns : nextMsgId <= 1 /\ ChatMessage(c, HistRoom)
           /\ Unwired
    \/ \E c \in RoomConns : DeleteMessage(c, HistRoom, 1) /\ Unwired
    \/ \E c \in RoomConns :
           NoTrackYet /\ MusicUploaded(c, SharedName) /\ Unwired
    \/ \E c \in RoomConns : PlayTrack(c, SharedName, 1) /\ Unwired
    \/ \E c \in RoomConns : TogglePlayback(c, SharedName) /\ Unwired

SpecShared == Init /\ [][NextShared]_vars

\* Largest number of handler runs whose events are followed to the
\* clients.
MaxAccepted == 5

\* Two sockets in one chat room, created once by the first of them, their
\* events followed over the wire to the clients: joins and re-joins,
\* leaves, sends and deletes.
NextOrder ==
    \/ \E c \in RoomConns : Connect(c) /\ Wired
    \/ /\ accepted < MaxAccepted
       /\ rooms = <<>>
       /\ CreateRoom(HistConn, HistRoom, NoLimit, NoPassword)
       /\ Wired
    \/ \E c \in RoomConns :
           /\ accepted < MaxAccepted
           /\ JoinRoom(c, HistRoom, NoPassword)
           /\ Wired
    \/ \E c \in RoomConns :
           /\ accepted < MaxAccepted
           /\ LeaveRoom(c, HistRoom)
           /\ Wired
    \/ \E c \in RoomConns :
           /\ accepted < MaxAccepted
           /\ nextMsgId <= MaxMsgs
           /\ ChatMessage(c, HistRoom)
           /\ Wired
    \/ \E c \in RoomConns, m \in ChatDeleteIds :
           /\ accepted < MaxAccepted
           /\ DeleteMessage(c, HistRoom, m)
           /\ Wired
    \/ \E c \in RoomConns : Deliver(c)

SpecOrder == Init /\ [][NextOrder]_vars

\* ------------------------------------------------------------------ claims

\* Some event of the latest handler carries the error text e.
EmittedErr(e) == \E k \in 1 .. Len(emitted) : emitted[k].err = e

\* Some event of the latest handler is named ev.
EmittedEv(ev) == \E k \in 1 .. Len(emitted) : emitted[k].ev = ev

\* The step is the run of a handler of the event named op (every handler
\* sets last; only the clock's tick does not, and it moves now).
Handled(op) == last'.op = op /\ now' = now

\* The latest handler emitted exactly one event, the error e, to socket c.
OnlyError(em, c, ev, e) ==
    Len(em) = 1 /\ em[1].ev = ev /\ em[1].err = e /\ em[1].to = {c}

\* C1: in every reachable state every chat room with a positive maxUsers and
\* every music room holds at most maxUsers occupant ids, whatever creates,
\* joins, room switches, leaves and disconnects came before.
C1_Capacity ==
    /\ \A r \in DOMAIN rooms :
           rooms[r].maxUsers > 0 =>
               Cardinality(rooms[r].users) <= rooms[r].maxUsers
    /\ \A r \in DOMAIN musicRooms :
           Cardinality(musicRooms[r].users) <= musicRooms[r].maxUsers

\* A chat room and a music room are both at their limit and the latest
\* handler turned a join away as room full.
C1_Witness ==
    /\ \E r \in DOMAIN rooms :
           /\ rooms[r].maxUsers > 0
           /\ Cardinality(rooms[r].users) = rooms[r].maxUsers
    /\ \E r \in DOMAIN musicRooms :
           Cardinality(musicRooms[r].users) = musicRooms[r].maxUsers
    /\ (EmittedErr(ErrFull) \/ EmittedErr(ErrMusicFull))

\* The chat rooms whose occupant set holds socket id c.
ChatRoomsOf(c) == {r \in DOMAIN rooms : c \in rooms[r].users}

\* The music rooms whose occupant set holds socket id c.
MusicRoomsOf(c) == {r \in DOMAIN musicRooms : c \in musicRooms[r].users}

\* C3: in every reachable state no connection id is in the occupant sets of
\* two distinct chat rooms, nor in those of two distinct music rooms.
C3_AtMostOneRoom ==
    \A c \in Conns :
        /\ Cardinality(ChatRoomsOf(c)) <= 1
        /\ Cardinality(MusicRoomsOf(c)) <= 1

\* C4: once a connection's disconnect has been handled, its id is in no
\* chat-room occupant set and in no music-room occupant set.
C4_GoneAfterDisconnect ==
    \A c \in Conns :
        status[c] = "closed" => ChatRoomsOf(c) = {} /\ MusicRoomsOf(c) = {}

\* C5: a leave-room request naming a room the requester does not occupy is
\* a no-op: no occupant set changes, the requester's recorded current chat
\* room stays as it was, and no event is emitted.
C5_LeaveElsewhereIsNoOp ==
    [][(Handled("leave room") /\ ~last'.was)
           => /\ rooms' = rooms
              /\ currentRoom' = currentRoom
              /\ emitted' = <<>>]_vars

\* Sockets c and d each sent the first server a join for the same room under
\* subscriptions of the same cap, while the room held cap - 1 members, neither
\* of them among these; both handlers have run to their end and nobody else
\* has entered the room.
TokenRaced(c, d) ==
    /\ tOut[c].result \in {"joined", "full"}
    /\ tOut[d].result \in {"joined", "full"}
    /\ tOut[c].room = tOut[d].room
    /\ tOut[c].cap \in TokenCaps
    /\ tOut[c].cap = tOut[d].cap
    /\ ~tOut[c].was /\ ~tOut[d].was
    /\ tOut[c].start = tOut[c].cap - 1
    /\ tOut[d].start = tOut[d].cap - 1
    /\ Cardinality({e \in Conns \ {c, d} : tOut[c].room \in tRooms[e]})
           = tOut[c].cap - 1

\* C2: when two distinct connections that do not occupy a room with a limit
\* join it one right after the other while it has exactly one free slot
\* (both passing the password check), the first join succeeds and the
\* second is rejected as room full, so exactly one of the two gets in,
\* whichever handler runs first; the occupant count stays within maxUsers.
\* In the first server, whose join handler awaits two queries, the same
\* holds however the segments of the two handlers interleave: of two
\* joiners with the same cap racing for the last slot exactly one becomes a
\* member, the other is told 'room full', and the room holds cap members.
C2_LastSlotRace ==
    /\ [](\A c, d \in Conns :
            (c # d /\ TokenRaced(c, d))
                => /\ (tOut[c].result = "joined") # (tOut[d].result = "joined")
                   /\ (tOut[c].room \in tRooms[c]) = (tOut[c].result = "joined")
                   /\ (tOut[d].room \in tRooms[d]) = (tOut[d].result = "joined")
                   /\ TokenRoomSize(tRooms, tOut[c].room) = tOut[c].cap)
    /\ [][(/\ Handled("join room")
        /\ last.op = "join room"
        /\ last'.room = last.room
        /\ last'.id # last.id
        /\ ~last.was /\ ~last'.was
        /\ last.free = 1
        /\ ~PasswordRejects(rooms[last.room], currentUser[last.id], last.pw)
        /\ ~PasswordRejects(rooms[last.room], currentUser[last'.id], last'.pw))
           => /\ EmittedEv("room join success")
              /\ last.id \in rooms[last.room].users
              /\ OnlyError(emitted', last'.id, "room join error", ErrFull)
              /\ last'.id \notin rooms'[last.room].users
              /\ rooms'[last.room].users = rooms[last.room].users
              /\ Cardinality(rooms'[last.room].users)
                     = rooms'[last.room].maxUsers]_vars

\* C2 as stated, for any two distinct connections: of two joins sent one
\* right after the other for a room with exactly one free slot, the first
\* succeeds and the second is rejected as room full.
C2_AsStated ==
    [][(/\ Handled("join room")
        /\ last.op = "join room"
        /\ last'.room = last.room
        /\ last'.id # last.id
        /\ last.free = 1)
           => /\ last.id \in rooms[last.room].users
              /\ OnlyError(emitted', last'.id, "room join error", ErrFull)
              /\ Cardinality(rooms'[last.room].users)
                     <= rooms'[last.room].maxUsers]_vars

\* The second of two back-to-back joins for the last slot of a room of two
\* has just been turned away as room full.
C2_Witness ==
    /\ last.op = "join room"
    /\ last.contended
    /\ ~last.was
    /\ rooms[last.room].maxUsers = 2
    /\ EmittedErr(ErrFull)

\* C10: a join (passing the password check) for a chat room whose occupancy
\* equals its maxUsers is rejected with the room-full error alone; no
\* occupant set changes, and the requester keeps its current room and its
\* place in the room it occupied before.
C10_FullRoomRejects ==
    [][(/\ Handled("join room")
        /\ last'.room \in DOMAIN rooms
        /\ rooms[last'.room].maxUsers # NoLimit
        /\ Cardinality(rooms[last'.room].users) = rooms[last'.room].maxUsers
        /\ ~PasswordRejects(rooms[last'.room], currentUser[last'.id],
                            last'.pw))
           => /\ OnlyError(emitted', last'.id, "room join error", ErrFull)
              /\ rooms' = rooms
              /\ currentRoom' = currentRoom
              /\ sockRooms' = sockRooms]_vars

\* C10 as stated, for any join request: a join for a chat room whose
\* occupancy equals its maxUsers is rejected with the room-full error, no
\* occupant set changes and the requester keeps its place.
C10_AsStated ==
    [][(/\ Handled("join room")
        /\ last'.room \in DOMAIN rooms
        /\ rooms[last'.room].maxUsers # NoLimit
        /\ Cardinality(rooms[last'.room].users) = rooms[last'.room].maxUsers)
           => /\ OnlyError(emitted', last'.id, "room join error", ErrFull)
              /\ rooms' = rooms
              /\ currentRoom' = currentRoom
              /\ sockRooms' = sockRooms]_vars

\* A socket that occupies one room has just been turned away, as room full,
\* from another room whose password it gave, and still occupies the first.
C10_Witness ==
    /\ last.op = "join room"
    /\ EmittedErr(ErrFull)
    /\ rooms[last.room].password # NoPassword
    /\ rooms[last.room].creator # currentUser[last.id]
    /\ last.pw = rooms[last.room].password
    /\ currentRoom[last.id] # None
    /\ currentRoom[last.id] # last.room
    /\ last.id \in rooms[currentRoom[last.id]].users

\* C6: in every reachable state every chat room's history holds at most
\* HistoryCap (100) entries, whatever sends and deletes came before.
C6_HistoryBounded ==
    \A r \in DOMAIN rooms : Len(rooms[r].messages) <= HistoryCap

\* A history at the cap after a delete and more sends than the cap and the
\* delete account for: a send has evicted the oldest entry.
C6_Witness ==
    /\ HistRoom \in DOMAIN rooms
    /\ Len(rooms[HistRoom].messages) = HistoryCap
    /\ Len(sent[HistRoom]) - Cardinality(deletes[HistRoom]) > HistoryCap
    /\ deletes[HistRoom] # {}
    /\ last.op = "chat message"

\* C7: after n accepted sends to a chat room and no delete, the room's
\* history is exactly the last min(n, 100) messages sent, in send order.
C7_LastHundredInOrder ==
    \A r \in DOMAIN rooms :
        deletes[r] = {}
            => LET n == Len(sent[r])
                   k == IF n < HistoryCap THEN n ELSE HistoryCap
               IN  /\ Len(rooms[r].messages) = k
                   /\ \A i \in 1 .. k :
                          rooms[r].messages[i] = sent[r][n - k + i]

\* A send has just evicted the second-oldest message sent; nothing was
\* deleted.
C7_Witness ==
    /\ HistRoom \in DOMAIN rooms
    /\ deletes[HistRoom] = {}
    /\ Len(sent[HistRoom]) = HistoryCap + 2
    /\ last.op = "chat message"
    /\ last.was
    /\ rooms[HistRoom].messages[1] = sent[HistRoom][3]

\* C8: a successful delete of message id m takes out of the room's history
\* exactly the one entry with id m and leaves every other entry, their
\* order and every other room as they were; a later delete request for an
\* id already deleted in that room is rejected and changes nothing: with
\* the message-not-found error when a current occupant sends it, with the
\* no-permission error otherwise.
C8_DeleteExactlyOne ==
    [][Handled("delete message")
           => LET c == last'.id
                  r == last'.room
                  m == last'.mid
              IN  /\ (EmittedEv("delete success")' \/ rooms' # rooms)
                         => /\ r \in DOMAIN rooms
                            /\ LET old == rooms[r].messages
                               IN  \E i \in 1 .. Len(old) :
                                       /\ old[i].id = m
                                       /\ \A j \in 1 .. Len(old) :
                                              j # i => old[j].id # m
                                       /\ rooms' =
                                              [rooms EXCEPT ![r].messages =
                                                  [k \in 1 .. Len(old) - 1 |->
                                                      IF k < i THEN old[k]
                                                      ELSE old[k + 1]]]
                  /\ (r \in DOMAIN rooms /\ m \in deletes[r])
                         => /\ OnlyError(emitted', c, "delete error",
                                         IF IsOccupant(rooms, r, c)
                                         THEN ErrNoMessage
                                         ELSE ErrNoPermission)
                            /\ rooms' = rooms
                            /\ deletes' = deletes]_vars

\* C8 as stated, for any requester: a delete request for an id already
\* deleted in that room is rejected with the message-not-found error and
\* changes nothing.
C8_AsStated ==
    [][(/\ Handled("delete message")
        /\ last'.room \in DOMAIN rooms
        /\ last'.mid \in deletes[last'.room])
           => /\ OnlyError(emitted', last'.id, "delete error", ErrNoMessage)
              /\ rooms' = rooms]_vars

\* An occupant has just asked again for the delete of a message already
\* deleted from a room that still holds another message, and was told the
\* message is not found.
C8_Witness ==
    /\ last.op = "delete message"
    /\ last.was
    /\ last.mid \in deletes[last.room]
    /\ EmittedErr(ErrNoMessage)
    /\ Len(rooms[last.room].messages) >= 1

\* C9: a delete-message request removes a message only if the requester is
\* a current occupant of the room and its current display name equals the
\* message's author; otherwise it is rejected with one error to the
\* requester alone: no-permission for a non-occupant (whatever the id),
\* else message-not-found for an id not in the history, else not-the-author;
\* a rejection changes no room and broadcasts no deletion event.
C9_DeleteAuthorized ==
    [][Handled("delete message")
           => LET c == last'.id
                  r == last'.room
                  m == last'.mid
                  occupant == IsOccupant(rooms, r, c)
                  found == occupant
                           /\ \E k \in 1 .. Len(rooms[r].messages) :
                                  rooms[r].messages[k].id = m
                  author == found
                            /\ \E k \in 1 .. Len(rooms[r].messages) :
                                   /\ rooms[r].messages[k].id = m
                                   /\ rooms[r].messages[k].username
                                          = currentUser[c]
                  rejected(e) == /\ OnlyError(emitted', c, "delete error", e)
                                 /\ rooms' = rooms
              IN  /\ ~occupant => rejected(ErrNoPermission)
                  /\ (occupant /\ ~found) => rejected(ErrNoMessage)
                  /\ (found /\ ~author) => rejected(ErrNotAuthor)
                  /\ (rooms' # rooms \/ EmittedEv("message deleted")')
                         => author]_vars

\* An occupant has just been refused the delete of another user's message,
\* which is still in the history.
C9_Witness ==
    /\ last.op = "delete message"
    /\ last.was
    /\ EmittedErr(ErrNotAuthor)
    /\ \E k \in 1 .. Len(rooms[last.room].messages) :
           /\ rooms[last.room].messages[k].id = last.mid
           /\ rooms[last.room].messages[k].username # currentUser[last.id]

\* C11: a join for a password-protected chat room by a connection whose
\* display name differs from the creator's, with no password or with a
\* non-matching one, is rejected with the wrong-password error alone and
\* changes no occupant set, no current room and no adapter room; a
\* requester whose display name equals the creator's is never asked for the
\* password: whatever it supplies it is admitted, unless the room is full,
\* and then it is rejected as room full.
C11_PasswordGate ==
    [][(/\ Handled("join room")
        /\ last'.room \in DOMAIN rooms
        /\ rooms[last'.room].password # NoPassword)
           => LET c == last'.id
                  r == last'.room
                  room == rooms[r]
              IN  /\ (/\ currentUser[c] # room.creator
                      /\ last'.pw # room.password)
                         => /\ OnlyError(emitted', c, "room join error",
                                         ErrPassword)
                            /\ c \in rooms'[r].users <=> c \in room.users
                            /\ rooms' = rooms
                            /\ currentRoom' = currentRoom
                            /\ sockRooms' = sockRooms
                  /\ currentUser[c] = room.creator
                         => IF room.maxUsers # NoLimit
                               /\ Cardinality(room.users) >= room.maxUsers
                            THEN /\ OnlyError(emitted', c, "room join error",
                                              ErrFull)
                                 /\ rooms' = rooms
                            ELSE /\ c \in rooms'[r].users
                                 /\ currentRoom'[c] = r
                                 /\ EmittedEv("room join success")']_vars

\* C11 as stated, for the requester named like the creator: it is admitted
\* to the protected room whatever password it supplies.
C11_AsStated ==
    [][(/\ Handled("join room")
        /\ last'.room \in DOMAIN rooms
        /\ rooms[last'.room].password # NoPassword
        /\ currentUser[last'.id] = rooms[last'.room].creator)
           => last'.id \in rooms'[last'.room].users]_vars

\* A socket not named like the creator has just been refused a protected
\* room for a non-matching password, and is not among its occupants.
C11_Witness ==
    /\ last.op = "join room"
    /\ last.room \in DOMAIN rooms
    /\ rooms[last.room].password # NoPassword
    /\ currentUser[last.id] # rooms[last.room].creator
    /\ last.pw \notin {NoPassword, rooms[last.room].password}
    /\ EmittedErr(ErrPassword)
    /\ last.id \notin rooms[last.room].users

\* Socket d is sent, by the latest handler, the event ev of room r carrying
\* the occupant count n.
Notified(em, d, ev, r, n) ==
    \E k \in 1 .. Len(em) :
        /\ em[k].ev = ev
        /\ em[k].room = r
        /\ em[k].count = n
        /\ d \in em[k].to

\* C12: when a connection that occupies chat room A successfully joins a
\* different chat room B, A loses exactly one occupant and B gains exactly
\* one; every remaining (connected) occupant of A is sent 'user left room'
\* with A's new count and every other (connected) occupant of B is sent
\* 'user joined room' with B's new count.
C12_SwitchMovesOne ==
    [][(Handled("join room") /\ EmittedEv("room join success")')
           => LET c == last'.id
                  B == last'.room
              IN  \A A \in DOMAIN rooms \ {B} :
                      c \in rooms[A].users
                          => /\ Cardinality(rooms'[A].users)
                                    = Cardinality(rooms[A].users) - 1
                             /\ Cardinality(rooms'[B].users)
                                    = Cardinality(rooms[B].users) + 1
                             /\ \A d \in rooms'[A].users :
                                    Live(d) =>
                                        Notified(emitted', d, "user left room",
                                            A, Cardinality(rooms'[A].users))
                             /\ \A d \in rooms'[B].users \ {c} :
                                    Live(d) =>
                                        Notified(emitted', d,
                                            "user joined room", B,
                                            Cardinality(rooms'[B].users))]_vars

TrackIds(playlist) == {playlist[k].id : k \in 1 .. Len(playlist)}

\* C14: in every reachable state of every music room, currentTrack is null
\* or a track of that room's playlist.
C14_CurrentTrackInPlaylist ==
    \A r \in DOMAIN musicRooms :
        \/ musicRooms[r].currentTrack = NoTrack
        \/ musicRooms[r].currentTrack \in TrackIds(musicRooms[r].playlist)

\* A room whose current track is the second of its playlist, after a play
\* request for a track no playlist holds left it in place.
C14_Witness ==
    /\ last.op = "play track"
    /\ last.was
    /\ last.mid \notin TrackIds(musicRooms[last.room].playlist)
    /\ Len(musicRooms[last.room].playlist) = 2
    /\ musicRooms[last.room].currentTrack
           = musicRooms[last.room].playlist[2].id

\* The three transport states of a music room.
Stopped(room) == room.currentTrack = NoTrack /\ ~room.isPlaying
Playing(room) ==
    /\ room.currentTrack # NoTrack
    /\ room.isPlaying
    /\ room.playStartTime # NoTime
Paused(room) == room.currentTrack # NoTrack /\ ~room.isPlaying

\* C15: every reachable transport state of a music room is Stopped (no
\* current track, not playing), Playing (a current track, isPlaying,
\* playStartTime set) or Paused (a current track, not playing); isPlaying is
\* never true while currentTrack is null.
C15_TransportStates ==
    \A r \in DOMAIN musicRooms :
        \/ Stopped(musicRooms[r])
        \/ Playing(musicRooms[r])
        \/ Paused(musicRooms[r])

C17_Toggle ==
    [][Handled("toggle playback")
           => LET c == last'.id
                  r == last'.room
              IN  /\ \A q \in DOMAIN musicRooms :
                         /\ musicRooms'[q].currentTrack
                                = musicRooms[q].currentTrack
                         /\ musicRooms'[q].playlist = musicRooms[q].playlist
                  /\ (r \in DOMAIN musicRooms /\ c \in musicRooms[r].users)
                         => LET old == musicRooms[r]
                                new == musicRooms'[r]
                            IN  /\ new.isPlaying = ~old.isPlaying
                                /\ new.isPlaying => new.playStartTime = now
                                /\ ~new.isPlaying =>
                                       new.playStartTime = old.playStartTime
                                /\ musicRooms' =
                                       [musicRooms EXCEPT
                                            ![r].isPlaying = new.isPlaying,
                                            ![r].playStartTime =
                                                new.playStartTime]]_vars

\* A toggle has just paused a track, after the clock moved on from the
\* stamp of its start: the stamp is still the old one.
C17_Witness ==
    /\ last.op = "toggle playback"
    /\ last.was
    /\ musicRooms[last.room].currentTrack # NoTrack
    /\ ~musicRooms[last.room].isPlaying
    /\ musicRooms[last.room].playStartTime # NoTime
    /\ musicRooms[last.room].playStartTime < now

\* C18: a music room's playStartTime never decreases, whatever transport
\* events and other steps happen (null, the value before any stamp, counting
\* as below every time); a step that changes it sets it to the current
\* time, so the stamp of a resume is at least the stamp it replaces, and
\* strictly greater whenever the clock has moved past that stamp.
C18_StampsNeverDecrease ==
    [][\A r \in DOMAIN musicRooms :
           LET old == musicRooms[r].playStartTime
               new == musicRooms'[r].playStartTime
           IN  /\ new >= old
               /\ old <= now
               /\ new # old => new = now
               /\ (/\ Handled("toggle playback")
                   /\ last'.room = r
                   /\ last'.id \in musicRooms[r].users
                   /\ ~musicRooms[r].isPlaying)
                      => /\ new = now
                         /\ now > old => new > old]_vars

\* C18 as stated: after a play-track and a pause, the resume stamps a
\* playStartTime strictly greater than the one it replaces.
C18_AsStated ==
    [][(/\ Handled("toggle playback")
        /\ last.op = "toggle playback"
        /\ last.was
        /\ last.room = last'.room
        /\ last'.room \in DOMAIN musicRooms
        /\ last'.id \in musicRooms[last'.room].users
        /\ musicRooms[last'.room].currentTrack # NoTrack
        /\ ~musicRooms[last'.room].isPlaying)
           => musicRooms'[last'.room].playStartTime
                  > musicRooms[last'.room].playStartTime]_vars

\* A toggle has just resumed a track, right after the toggle that paused
\* it, with the stamp of a clock that has advanced.
C18_Witness ==
    /\ last.op = "toggle playback"
    /\ last.was
    /\ musicRooms[last.room].currentTrack # NoTrack
    /\ musicRooms[last.room].isPlaying
    /\ musicRooms[last.room].playStartTime = now
    /\ now > 0

\* C19: a create-room request for a name already in the room store is
\* rejected with the room-already-exists error alone and leaves every room
\* as it was; a create-room request for an unused name adds one room, with
\* the password sent, the requester's display name as creator, an empty
\* history and an empty occupant set, and moves no connection into any
\* room: the creator is not an occupant until it joins.
C19_CreateRoom ==
    [][Handled("create room")
           => LET c == last'.id
                  r == last'.room
              IN  IF r \in DOMAIN rooms
                  THEN /\ OnlyError(emitted', c, "room join error", ErrExists)
                       /\ rooms' = rooms
                  ELSE /\ DOMAIN rooms' = DOMAIN rooms \cup {r}
                       /\ \A q \in DOMAIN rooms : rooms'[q] = rooms[q]
                       /\ rooms'[r].users = {}
                       /\ rooms'[r].messages = <<>>
                       /\ rooms'[r].password = last'.pw
                       /\ rooms'[r].creator = currentUser[c]
                       /\ currentRoom' = currentRoom
                       /\ sockRooms' = sockRooms
                       /\ Len(emitted') = 1
                       /\ emitted'[1].ev = "room created"
                       /\ emitted'[1].to = {c}]_vars

\* A socket has just been refused the creation, under another password, of
\* a room that another user created and that has an occupant, a history, a
\* password and a limit.
C19_Witness ==
    /\ last.op = "create room"
    /\ EmittedErr(ErrExists)
    /\ rooms[last.room].users # {}
    /\ rooms[last.room].messages # <<>>
    /\ rooms[last.room].password # NoPassword
    /\ rooms[last.room].password # last.pw
    /\ rooms[last.room].maxUsers # NoLimit
    /\ rooms[last.room].creator # currentUser[last.id]

\* The error texts of the rejections.
Rejections ==
    {ErrExists, ErrNotFound, ErrPassword, ErrFull, ErrNoPermission,
     ErrNotAuthor, ErrNoMessage, ErrMusicExists, ErrMusicNotFound,
     ErrMusicFull}

\* C20: a request that is rejected (room already exists, room not found,
\* wrong password, room full, not authorized, not author, message not found,
\* and the same for music rooms) emits one event, to the requesting
\* connection alone, changes no chat room and no music room, no current
\* room and no adapter room, and leaves every connection as it was, the
\* requester connected, and every room in the store.
C20_RejectionsAreLocal ==
    [][(\E k \in 1 .. Len(emitted') : emitted'[k].err \in Rejections)
           => /\ Len(emitted') = 1
              /\ emitted'[1].to = {last'.id}
              /\ rooms' = rooms
              /\ musicRooms' = musicRooms
              /\ currentRoom' = currentRoom
              /\ currentMusicRoom' = currentMusicRoom
              /\ sockRooms' = sockRooms
              /\ status' = status
              /\ status'[last'.id] = "live"]_vars

\* An occupant has just been refused the delete of another user's message
\* in a room it shares with that user, who was sent nothing.
C20_Witness ==
    /\ last.op = "delete message"
    /\ EmittedErr(ErrNotAuthor)
    /\ Cardinality(rooms[last.room].users) = 2
    /\ \A d \in rooms[last.room].users : Live(d)
    /\ emitted[1].to = {last.id}

\* C22: in the token-authenticated join, when the token is valid, the user
\* is found and the subscription query gives a plan of cap N, a join to a
\* room that holds N or more members when the handler tests the capacity is
\* answered with 'room full' alone, to the joiner alone: no adapter room
\* gains or loses a member and no socket's recorded current room changes.
C22_TokenCapHonoured ==
    [][\A c \in Conns :
           (/\ last'.op = "token subscription query"
            /\ last'.id = c
            /\ tOut'[c].cap \in TokenCaps
            /\ TokenRoomSize(tRooms, last'.room) >= tOut'[c].cap)
               => /\ OnlyError(emitted', c, "room full", ErrTokenFull)
                  /\ tOut'[c].result = "full"
                  /\ tRooms' = tRooms
                  /\ tCurrentRoom' = tCurrentRoom
                  /\ last'.room \in tRooms'[c] <=> last'.was]_vars

\* A joiner with a plan of cap two has just been told 'room full' by a room
\* of two other members; it is no member and has no current room.
C22_Witness ==
    /\ last.op = "token subscription query"
    /\ tOut[last.id].result = "full"
    /\ tOut[last.id].cap = 2
    /\ TokenRoomSize(tRooms, last.room) = 2
    /\ last.room \notin tRooms[last.id]
    /\ tCurrentRoom[last.id] = None
    /\ EmittedErr(ErrTokenFull)

\* The departure notifications the events em deliver to somebody: the
\* rooms they name.
DepartedRooms(em, ev) ==
    {em[k].room : k \in {j \in 1 .. Len(em) : em[j].ev = ev /\ em[j].to # {}}}

\* C27: a successful join (of a chat room or of a music room) notifies a
\* room of a departure only when the joiner was an occupant of that room
\* and that room is not the room joined; a join of the room the connection
\* already occupies leaves that room's occupant set as it was and notifies
\* it of no departure.
C27_DepartureOnlyOnSwitch ==
    [][/\ (Handled("join room") /\ EmittedEv("room join success")')
              => LET c == last'.id
                     B == last'.room
                 IN  /\ \A A \in DepartedRooms(emitted', "user left room") :
                            A # B /\ A \in DOMAIN rooms /\ c \in rooms[A].users
                     /\ c \in rooms[B].users
                            => rooms'[B].users = rooms[B].users
       /\ (Handled("join music room")
            /\ EmittedEv("music room join success")')
              => LET c == last'.id
                     B == last'.room
                 IN  /\ \A A \in DepartedRooms(emitted',
                                                "music room user left") :
                            /\ A # B
                            /\ A \in DOMAIN musicRooms
                            /\ c \in musicRooms[A].users
                     /\ c \in musicRooms[B].users
                            => musicRooms'[B].users = musicRooms[B].users]_vars

\* The events of em that notify socket d of a departure from room r (chat
\* or music).
DepartureNotices(em, d, r) ==
    {k \in 1 .. Len(em) :
        /\ em[k].ev \in {"user left room", "music room user left"}
        /\ em[k].room = r
        /\ d \in em[k].to}

\* C28: on a disconnect, in every room, chat or music, that the connection
\* occupied, each remaining connected occupant is sent exactly one departure
\* notification, carrying the number of occupants that remain; no socket is
\* notified about a room the connection did not occupy; the disconnect of a
\* connection that occupies no room, with or without a display name,
\* changes no room and emits nothing.
C28_DisconnectNotifies ==
    [][Handled("disconnect")
           => LET c == last'.id
              IN  /\ \A r \in DOMAIN rooms : \A d \in Conns \ {c} :
                         IF c \in rooms[r].users
                         THEN (d \in rooms[r].users /\ Live(d))
                                  => /\ Cardinality(
                                            DepartureNotices(emitted', d, r)) = 1
                                     /\ \A k \in DepartureNotices(emitted', d, r) :
                                            emitted'[k].count =
                                                Cardinality(rooms[r].users \ {c})
                         ELSE DepartureNotices(emitted', d, r) = {}
                  /\ \A r \in DOMAIN musicRooms : \A d \in Conns \ {c} :
                         IF c \in musicRooms[r].users
                         THEN (d \in musicRooms[r].users /\ Live(d))
                                  => /\ Cardinality(
                                            DepartureNotices(emitted', d, r)) = 1
                                     /\ \A k \in DepartureNotices(emitted', d, r) :
                                            emitted'[k].count =
                                                Cardinality(
                                                    musicRooms[r].users \ {c})
                         ELSE DepartureNotices(emitted', d, r) = {}
                  /\ (ChatRoomsOf(c) = {} /\ MusicRoomsOf(c) = {})
                         => /\ rooms' = rooms
                            /\ musicRooms' = musicRooms
                            /\ emitted' = <<>>]_vars

\* C24: in a music room a voice message from an occupant goes to the end of
\* the history the chat messages are in and evicts nothing, whatever the
\* length; an accepted music chat message goes to the end of the history,
\* which is then cut to its most recent HistoryCap (100) entries; a message
\* of either kind from a non-occupant changes nothing and emits nothing.
C24_VoiceUntrimmed ==
    [][(Handled("music voice message") \/ Handled("music chat message"))
           => LET c == last'.id
                  r == last'.room
              IN  IF r \in DOMAIN musicRooms /\ c \in musicRooms[r].users
                  THEN LET old == musicRooms[r].messages
                           new == musicRooms'[r].messages
                           m == new[Len(new)]
                       IN  /\ Len(new) >= 1
                           /\ m.id = last'.mid
                           /\ \A k \in 1 .. Len(old) : old[k].id # m.id
                           /\ IF last'.op = "music voice message"
                              THEN new = Append(old, m)
                              ELSE /\ Len(new) <= HistoryCap
                                   /\ new = SliceLast(Append(old, m),
                                                      HistoryCap)
                           /\ musicRooms' =
                                  [musicRooms EXCEPT ![r].messages = new]
                  ELSE /\ musicRooms' = musicRooms
                       /\ emitted' = <<>>]_vars

\* A music chat message has just cut to HistoryCap entries a history that
\* two voice messages had taken past it: the oldest two entries are gone.
C24_Witness ==
    /\ last.op = "music chat message"
    /\ last.was
    /\ last.mid = HistoryCap + 2
    /\ Len(musicRooms[last.room].messages) = HistoryCap
    /\ musicRooms[last.room].messages[1].id = 3
    /\ musicRooms[last.room].messages[HistoryCap].id = last.mid

\* s is t cut off after some entry: every entry of s is in t at the same
\* place.
IsPrefix(s, t) == Len(s) <= Len(t) /\ \A k \in 1 .. Len(s) : s[k] = t[k]

C26_CreateMusicRoom ==
    [][Handled("create music room")
           => LET c == last'.id
                  id == last'.room
              IN  IF id \in DOMAIN musicRooms
                  THEN /\ OnlyError(emitted', c, "music room join error",
                                    ErrMusicExists)
                       /\ musicRooms' = musicRooms
                  ELSE /\ DOMAIN musicRooms' = DOMAIN musicRooms \cup {id}
                       /\ \A q \in DOMAIN musicRooms :
                              musicRooms'[q] = musicRooms[q]
                       /\ musicRooms'[id].users = {}
                       /\ musicRooms'[id].playlist = <<>>
                       /\ musicRooms'[id].messages = <<>>
                       /\ Len(emitted') = 3
                       /\ emitted'[1].ev = "music room created"
                       /\ emitted'[1].room = id
                       /\ emitted'[1].to = {c}
                       /\ emitted'[2].ev = "music room list"
                       /\ emitted'[2].count = Cardinality(DOMAIN musicRooms')
                       /\ emitted'[2].to = {c}
                       /\ emitted'[3].ev = "music room list update"
                       /\ \A d \in Conns \ {c} :
                              Live(d) <=> d \in emitted'[3].to]_vars

\* C26 as stated: every create-music-room request adds a room under an id
\* no room had.
C26_AsStated ==
    [][Handled("create music room")
           => /\ last'.room \notin DOMAIN musicRooms
              /\ DOMAIN musicRooms' = DOMAIN musicRooms \cup {last'.room}
              /\ EmittedEv("music room created")']_vars

\* A music room has just been created under the display name of a room
\* that exists, while another socket is connected: the two rooms have two
\* ids and the other socket is sent the invalidation event.
C26_Witness ==
    /\ last.op = "create music room"
    /\ EmittedEv("music room created")
    /\ \E q \in DOMAIN musicRooms \ {last.room} :
           musicRooms[q].name = musicRooms[last.room].name
    /\ \E d \in Conns \ {last.id} : Live(d) /\ d \in emitted[3].to

\* C29: in every reachable state, for every connected socket and every chat
\* or music room, the socket is a target of the room's broadcasts (a member
\* of the adapter room the room's emits go to) if and only if its id is in
\* the room's occupant set.
C29_TargetsAreOccupants ==
    \A c \in Conns :
        Live(c) =>
            /\ \A r \in DOMAIN rooms :
                   c \in ToRoom(sockRooms, r) <=> c \in rooms[r].users
            /\ \A r \in DOMAIN musicRooms :
                   c \in ToRoom(sockRooms, r) <=> c \in musicRooms[r].users

\* The events of em that are broadcasts of a room: they carry its name.
RoomEvents(em) == {k \in 1 .. Len(em) : em[k].room # None}

\* C30: a send or delete addressed to chat room R, or an add-track,
\* play-track or toggle addressed to music room R, leaves every other room,
\* chat or music, as it was (occupants, history, playlist, transport), and
\* the room events it emits are delivered to no connection that occupies
\* only other rooms.
C30_RoomsAreSeparate ==
    [][\A op \in {"chat message", "delete message", "music uploaded",
                  "play track", "toggle playback"} :
           Handled(op)
               => LET R == last'.room
                      chat == op \in {"chat message", "delete message"}
                      occupants == IF chat
                                   THEN IF R \in DOMAIN rooms
                                        THEN rooms[R].users ELSE {}
                                   ELSE IF R \in DOMAIN musicRooms
                                        THEN musicRooms[R].users ELSE {}
                  IN  /\ DOMAIN rooms' = DOMAIN rooms
                      /\ DOMAIN musicRooms' = DOMAIN musicRooms
                      /\ \A q \in DOMAIN rooms :
                             (~chat \/ q # R) => rooms'[q] = rooms[q]
                      /\ \A q \in DOMAIN musicRooms :
                             (chat \/ q # R) => musicRooms'[q] = musicRooms[q]
                      /\ \A k \in RoomEvents(emitted') :
                             \A d \in emitted'[k].to :
                                 \/ d \in occupants
                                 \/ ChatRoomsOf(d) \cup MusicRoomsOf(d) = {}]_vars

\* Event e went out before event f: in an earlier handler run, or earlier
\* in the same run.
AcceptedBefore(e, f) == e.n < f.n \/ (e.n = f.n /\ e.k < f.k)

\* The place of the event numbered (n, k) among those socket c has
\* received; 0 when c has not received it.
SeenAt(c, n, k) ==
    IF \E i \in 1 .. Len(seen[c]) : seen[c][i].n = n /\ seen[c][i].k = k
    THEN CHOOSE i \in 1 .. Len(seen[c]) :
             seen[c][i].n = n /\ seen[c][i].k = k
    ELSE 0

Replayed(em) ==
    LET IsReplay(e) == e.ev = "chat message replay"
    IN  SelectSeq(em, IsReplay)

\* C23: a successful chat-room join emits, to the joiner alone, one replay
\* per message of the room's history as it is at the join, in history
\* order, each message once; and a client receives the live delivery of a
\* message sent after its join behind every message that join replayed.
C23_ReplayThenLive ==
    /\ [][(/\ Handled("join room")
           /\ seen' = seen
           /\ EmittedEv("room join success")')
              => LET c == last'.id
                     history == rooms[last'.room].messages
                     replayed == Replayed(emitted')
                 IN  /\ Len(replayed) = Len(history)
                     /\ \A k \in 1 .. Len(history) :
                            /\ replayed[k].mid = history[k].id
                            /\ replayed[k].user = history[k].username
                            /\ replayed[k].room = last'.room
                            /\ replayed[k].to = {c}
                     /\ \A k \in 1 .. Len(emitted') :
                            emitted'[k].ev = "chat message" => FALSE]_vars
    /\ [](\A c \in Conns : \A i, j \in 1 .. Len(seen[c]) :
             (/\ seen[c][i].ev = "chat message replay"
              /\ seen[c][j].ev = "chat message"
              /\ seen[c][i].room = seen[c][j].room
              /\ seen[c][i].n < seen[c][j].n)
                 => i < j)

\* A client has received the replay of the message its join found in the
\* history and then, live, a message sent after the join; the other client,
\* in the room since before both, has received them live and no replay.
C23_Witness ==
    \E c, d \in Conns :
        /\ c # d
        /\ \E i, j \in 1 .. Len(seen[c]) :
               /\ i < j
               /\ seen[c][i].ev = "chat message replay"
               /\ seen[c][j].ev = "chat message"
               /\ seen[c][i].n < seen[c][j].n
               /\ seen[c][i].mid < seen[c][j].mid
        /\ \E i \in 1 .. Len(seen[d]) : seen[d][i].ev = "chat message"
        /\ \A i \in 1 .. Len(seen[d]) : seen[d][i].ev # "chat message replay"

\* C31: every message an occupant sends, to a chat room or as a chat or
\* voice message to a music room, is recorded in the room's history and
\* sent out under the display name the sending connection holds at the time
\* of the send.
C31_AuthorIsSender ==
    [][/\ (Handled("chat message") /\ IsOccupant(rooms, last'.room, last'.id))
              => LET new == rooms'[last'.room].messages
                 IN  /\ new[Len(new)].id = last'.mid
                     /\ new[Len(new)].username = currentUser[last'.id]
                     /\ \A k \in 1 .. Len(emitted') :
                            emitted'[k].user = currentUser[last'.id]
       /\ ((Handled("music chat message") \/ Handled("music voice message"))
            /\ IsOccupant(musicRooms, last'.room, last'.id))
              => LET new == musicRooms'[last'.room].messages
                 IN  /\ new[Len(new)].id = last'.mid
                     /\ new[Len(new)].user = currentUser[last'.id]
                     /\ \A k \in 1 .. Len(emitted') :
                            emitted'[k].user = currentUser[last'.id]]_vars

====
